---- MODULE Spec2Model ----
(***************************************************************************)
(* Teleoperation relay (host_broadcast.py), the arm followers it drives    *)
(* (robots/piper, piper_robot.py, robots/bimanual_yam) and the motor       *)
(* enable listener (motor_enable_listener.py), as one state machine.       *)
(***************************************************************************)
EXTENDS Integers, Sequences, FiniteSets, TLC

\* ------------------------------------------------------------------ bounds
MaxMsgs == 2          \* messages the operator sends in one run
MaxDriverErrors == 1  \* driver calls that raise in one run
MaxAttempts == 2      \* largest max_enable_attempts tried
MaxReqs == 1          \* enable requests in one run
MaxFaults == 1        \* motor faults in one run
MaxFaultyJoint == 1   \* joints 1..MaxFaultyJoint and the gripper can fault

\* ------------------------------------------------------- program constants
NumJoints == 7        \* range(7): 6 joints + gripper
GripperDefault == 50  \* piper_robot.py: "Default to 50% open"

Sides == {"left", "right"}
JointIdx == 0 .. (NumJoints - 1)

\* The follower families main() can be built on (cfg.system "piper-so101",
\* and "yam-dynamixel" with yam_use_zmq), and with them the stand-alone
\* follower of piper_robot.py / bimanual_piper_follower.py.
Systems == {"piper", "yam_zmq"}
Followers == Systems \cup {"piper_min"}

\* "joint_<i>.pos" by index (alt_keys) and the teleop-style names
\* (expected_keys); joint 3 has no teleop-style name.
AltKey == <<"joint_0.pos", "joint_1.pos", "joint_2.pos", "joint_3.pos",
            "joint_4.pos", "joint_5.pos", "joint_6.pos">>
NamedKey == <<"shoulder_pan.pos", "shoulder_lift.pos", "elbow_flex.pos",
              "", "wrist_flex.pos", "wrist_roll.pos", "gripper.pos">>
expected_keys == {"shoulder_pan.pos", "shoulder_lift.pos", "elbow_flex.pos",
                  "wrist_flex.pos", "wrist_roll.pos", "gripper.pos"}
alt_keys == {AltKey[i + 1] : i \in JointIdx}

\* A command key is <<prefix, name>>: the text before the joint name and
\* the joint name.  Each follower family has its own prefix convention.
Prefix(sys, side) ==
    IF sys = "piper_min"
    THEN (IF side = "left" THEN "action.left_piper." ELSE "action.right_piper.")
    ELSE (IF side = "left" THEN "left_" ELSE "right_")

\* --------------------------------------------------------- bounded inputs
CmdValues == {50}
CmdNames == [left |-> {"joint_0.pos", "shoulder_lift.pos"}, right |-> {"joint_1.pos"}]
CmdKeys(sys) == {<<Prefix(sys, s), n>> : s \in {"left"}, n \in CmdNames.left}
                \cup {<<Prefix(sys, s), n>> : s \in {"right"}, n \in CmdNames.right}
Commands(sys) == UNION {[K -> CmdValues] : K \in SUBSET CmdKeys(sys)}
\* Positions the driver reports for an arm (raw driver units).
ReportedPos == {[j \in 1 .. NumJoints |-> 10]}

NoMsg == [id |-> 0, bad |-> FALSE, utf8 |-> TRUE, act |-> << >>]
\* What a message on a socket can be: a JSON object, text that is not JSON,
\* or bytes that are not UTF-8 text.
MsgKinds == {"cmd", "badjson", "badutf8"}
Zeros == [j \in 1 .. NumJoints |-> 0]

VARIABLES
    system,      \* which follower classes are in use (cfg.system for the relay)
    peer,        \* a teleoperator is connected to the relay's sockets
    connected,   \* robot.connect() was called and robot.disconnect() was not
    socks,       \* sockets created and not closed
    chan,        \* the PULL socket's receive queue
    sent,        \* number of commands sent so far
    rpc,         \* relay: position in main() ("off": the relay is not running)
    first_cmd,   \* main(): first_cmd
    lastValid,   \* per arm: _last_valid_positions (<< >> is None)
    limits,      \* per arm: PiperSDKInterface.min_pos/max_pos are set
    hwPos,       \* per arm: positions the driver reports
    errBudget,   \* driver calls that may still raise
    \* history variables
    arrived,     \* ids that arrived since the last command read
    superseded,  \* ids followed by a later arrival before they were read
    lastRead,    \* the last command read: its id, and the id that had arrived last
    applied,     \* ids handed to send_action
    cmdPub,      \* ids broadcast on pub_cmd
    lastWrite,   \* per arm: the latest joint command written to the driver
    cyc,         \* what the current cycle did so far
    obsSkipped,  \* some cycle ended without reading and publishing an observation
    exitCause,   \* why main() left its loop
    msgLimit,    \* messages the operator sends in this run
    clIn,        \* a motor status to classify: enabled, flags, exposed attributes
    clOut,       \* its classification
    scIn,        \* set_joint_positions: one joint and its normalized command
    scOut,       \* the physical and the wire value computed for it
    rtIn,        \* the action last passed to the bimanual send_action
    tm,          \* the relay loop against the clock: position, time.time(), loop_start
    cn,          \* robot.connect(): the arm being connected and the position in it
    rq,          \* the enable listener's dispatch: the last command and the recoveries it ran
    ym,          \* one call of YAMMotorEnableListener.enable_motors: its inputs and its result
    motors,      \* per arm, per motor: the hardware's foc_status (en, fl)
    lpc,         \* listener: position in the handling of an enable request
    eng,         \* enable_motors: arm, mode, arm_motors_to_enable, counters
    log,         \* driver write commands issued for the current request
    diag,        \* the arm's hardware as the request found it, and what it read
    outcome,     \* the last finished request
    lock,        \* per arm: ArmController.lock is held
    served,      \* messages received on the enable socket
    skipped,     \* of those, the ones run() skipped as unreadable
    reqLimit,    \* enable requests the operator sends in this run
    faultLimit,  \* motor faults the hardware develops in this run
    faults,      \* motor faults so far
    max_attempts \* config.max_enable_attempts

relayOnly == <<system, peer, connected, socks, chan, sent, rpc, first_cmd, lastValid, limits, hwPos,
               arrived, superseded, lastRead, applied, cmdPub, lastWrite, cyc,
               obsSkipped, exitCause, msgLimit>>
relayVars == <<relayOnly, errBudget>>
classVars == <<clIn, clOut, scIn, scOut, rtIn, tm, cn, rq, ym>>
engVars == <<motors, lpc, eng, log, diag, outcome, lock, served, skipped, reqLimit, faultLimit,
             faults, max_attempts>>
vars == <<relayVars, classVars, engVars>>

NewCycle == [kind |-> "none", obsRead |-> FALSE, push |-> "no", pub |-> "no"]
NoWrite == [id |-> 0, pos |-> << >>, prev |-> << >>, omitted |-> {},
            recovering |-> FALSE, healthy |-> TRUE]

Range(f) == {f[i] : i \in DOMAIN f}

\* ------------------------------------------------------ command channel
\* pull_cmd with zmq.CONFLATE = 1: the queue keeps only the newest message.
EnqueueAll(q, m) == Append(q, m)
Enqueue(q, m) == << m >>

\* ------------------------------------------------------- single arm
\* action.get(named, action.get(alt, default))
Get2(action, named, alt, default) ==
    IF named \in DOMAIN action THEN action[named]
    ELSE IF alt \in DOMAIN action THEN action[alt]
    ELSE default

PositionsFrom(action, default) ==
    [j \in 1 .. NumJoints |-> Get2(action, NamedKey[j], AltKey[j], default[j])]

\* joints for which the action carries no key
Omitted(action) ==
    {j \in 1 .. NumJoints : NamedKey[j] \notin DOMAIN action /\ AltKey[j] \notin DOMAIN action}

\* A send_action without the early return: every command goes on to the write.
AnyKeys(action) == TRUE

HasValidKeys(action) ==
    (DOMAIN action \cap expected_keys # {}) \/ (DOMAIN action \cap alt_keys # {})

\* The outcome of one arm's send_action: the cache afterwards, whether a
\* joint command reached the driver, the positions, and whether it raised.
ArmResult(lv, wrote, pos, raised) ==
    [lv |-> lv, wrote |-> wrote, pos |-> pos, raised |-> raised]

\* robots/piper/piper.py Piper.send_action over
\* robots/piper/piper_sdk_interface.py set_joint_positions (no try/except).
PiperSendAction(lv, action, reported, rdFail, wrFail) ==
    IF ~HasValidKeys(action) THEN ArmResult(lv, FALSE, << >>, FALSE)
    ELSE LET last == IF lv = << >>
                     THEN (IF rdFail THEN Zeros ELSE reported)
                     ELSE lv
             positions == PositionsFrom(action, last)
         IN  ArmResult(positions, ~wrFail, positions, wrFail)

\* piper_robot.py Piper.send_action over piper_sdk_interface.py
\* set_joint_positions (returns early without limits, swallows send errors).
MinDefaults == [j \in 1 .. NumJoints |-> IF j = NumJoints THEN GripperDefault ELSE 0]
PiperMinSendAction(lv, action, hasLimits, wrFail) ==
    LET positions == PositionsFrom(action, MinDefaults)
    IN  ArmResult(lv, hasLimits /\ ~wrFail, positions, FALSE)

\* ------------------------------------------------------- bimanual robots
\* The part of a command addressed to one arm, keyed by joint name.
SplitAction(act, prefix) ==
    [n \in {k[2] : k \in {kk \in DOMAIN act : kk[1] = prefix}} |-> act[<<prefix, n>>]]

BiResult(L, R) == [arm |-> [left |-> L, right |-> R], raised |-> L.raised \/ R.raised]
NotCalled(lv) == ArmResult(lv, FALSE, << >>, FALSE)

\* robots/bimanual_piper/bimanual_piper_follower.py send_action: the left
\* arm, then the right arm; an exception from the left arm skips the right.
BimanualPiperSendAction(lvs, act, rep, F) ==
    LET L == PiperSendAction(lvs.left, SplitAction(act, Prefix("piper", "left")),
                             rep.left, "rdL" \in F, "wrL" \in F)
        R == IF L.raised THEN NotCalled(lvs.right)
             ELSE PiperSendAction(lvs.right, SplitAction(act, Prefix("piper", "right")),
                                  rep.right, "rdR" \in F, "wrR" \in F)
    IN  BiResult(L, R)

\* bimanual_piper_follower.py send_action: an arm is called only when the
\* command carries keys for it.
BimanualMinSendAction(lvs, act, lim, F) ==
    LET la == SplitAction(act, Prefix("piper_min", "left"))
        ra == SplitAction(act, Prefix("piper_min", "right"))
        L == IF DOMAIN la # {}
             THEN PiperMinSendAction(lvs.left, la, lim.left, "wrL" \in F)
             ELSE NotCalled(lvs.left)
        R == IF DOMAIN ra # {}
             THEN PiperMinSendAction(lvs.right, ra, lim.right, "wrR" \in F)
             ELSE NotCalled(lvs.right)
    IN  BiResult(L, R)

\* robots/bimanual_yam/bimanual_yam_follower_zmq.py send_action: both caches
\* are initialised together, both arms are written inside one try/except.
YamPositions(action, last) ==
    [j \in 1 .. NumJoints |-> IF AltKey[j] \in DOMAIN action THEN action[AltKey[j]] ELSE last[j]]

YamSendAction(lvs, act, rep, F) ==
    LET la == SplitAction(act, Prefix("yam_zmq", "left"))
        ra == SplitAction(act, Prefix("yam_zmq", "right"))
        has_left_keys == DOMAIN la \cap alt_keys # {}
        has_right_keys == DOMAIN ra \cap alt_keys # {}
        last == IF lvs.left = << >>
                THEN (IF "rdL" \in F \/ "rdR" \in F
                      THEN [left |-> Zeros, right |-> Zeros]
                      ELSE [left |-> rep.left, right |-> rep.right])
                ELSE lvs
        lp == YamPositions(la, last.left)
        rp == YamPositions(ra, last.right)
    IN  IF ~has_left_keys /\ ~has_right_keys
        THEN BiResult(NotCalled(lvs.left), NotCalled(lvs.right))
        ELSE BiResult(ArmResult(lp, "wrL" \notin F, lp, FALSE),
                      ArmResult(rp, "wrL" \notin F /\ "wrR" \notin F, rp, FALSE))

RobotSendAction(sys, lvs, act, rep, lim, F) ==
    CASE sys = "piper" -> BimanualPiperSendAction(lvs, act, rep, F)
      [] sys = "piper_min" -> BimanualMinSendAction(lvs, act, lim, F)
      [] sys = "yam_zmq" -> YamSendAction(lvs, act, rep, F)

\* joints of one arm for which a command carries no key that arm reads
OmittedFor(sys, act, side) ==
    LET a == SplitAction(act, Prefix(sys, side))
    IN  IF sys = "yam_zmq" THEN {j \in 1 .. NumJoints : AltKey[j] \notin DOMAIN a}
        ELSE Omitted(a)

\* what one arm was last commanded, as the session knows it
LastCommand(lv, lw) == IF lv # << >> THEN lv ELSE lw.pos

Faults(budget) == {F \in SUBSET {"rdL", "rdR", "wrL", "wrR"} : Cardinality(F) <= budget}

\* ----------------------------------------------------- motors of an arm
GripperMotor == 7
JointMotors == 1 .. 6
Motors == 1 .. 7
Healthy(raw) == raw.en /\ raw.fl = {}
HealthyRaw == [en |-> TRUE, fl |-> {}]
ArmHealthy(hw) == \A m \in Motors : Healthy(hw[m])
\* A recovery sequence is in progress on the arm: it has issued a driver
\* command and has not ended.
Recovering(s) == lpc # "idle" /\ eng.arm = s /\ log # << >>

\* The latest joint command written per arm, after send_action returned r
\* for command number id with content act.
Written(r, id, act) ==
    [s \in Sides |->
        IF r.arm[s].wrote
        THEN [id |-> id, pos |-> r.arm[s].pos,
              prev |-> LastCommand(lastValid[s], lastWrite[s]),
              omitted |-> OmittedFor(system, act, s),
              recovering |-> Recovering(s),
              healthy |-> ArmHealthy(motors[s])]
        ELSE lastWrite[s]]

\* ------------------------------------------------------------ the relay
\* The four sockets of main(), in the order they are created and bound.
SockOrder == <<"pull_cmd", "push_obs", "pub_cmd", "pub_obs">>
Sockets == Range(SockOrder)

RelayInit ==
    /\ system \in Systems
    /\ connected = TRUE
    /\ socks = Sockets
    /\ chan = << >>
    /\ sent = 0
    /\ rpc = "recv"
    /\ first_cmd = FALSE
    /\ lastValid = [s \in Sides |-> << >>]
    /\ limits = [s \in Sides |-> TRUE]
    /\ hwPos \in [Sides -> ReportedPos]
    /\ arrived = << >>
    /\ superseded = {}
    /\ lastRead = [id |-> 0, last |-> 0, kind |-> "none"]
    /\ applied = {}
    /\ cmdPub = {}
    /\ lastWrite = [s \in Sides |-> NoWrite]
    /\ cyc = NewCycle
    /\ obsSkipped = FALSE
    /\ exitCause = "none"

\* The operator pushes a message to the command socket.
Arrive ==
    /\ peer
    /\ sent < msgLimit
    /\ rpc \notin {"setup", "finally", "exited"}
    /\ \E kind \in MsgKinds :
       \E act \in (IF kind # "cmd" THEN {<< >>} ELSE Commands(system)) :
          LET m == [id |-> sent + 1, bad |-> kind = "badjson", utf8 |-> kind # "badutf8",
                    act |-> act]
          IN  /\ chan' = Enqueue(chan, m)
              /\ arrived' = Append(arrived, m.id)
    /\ sent' = sent + 1
    /\ superseded' = superseded \cup Range(arrived)
    /\ UNCHANGED <<system, peer, connected, socks, rpc, first_cmd, lastValid, limits, hwPos, errBudget, lastRead, applied, cmdPub, lastWrite, cyc, obsSkipped, exitCause>>
    /\ UNCHANGED <<msgLimit, classVars, engVars>>

\* recv_string(NOBLOCK) raises zmq.Again: nothing queued.
RecvNone ==
    /\ rpc = "recv"
    /\ chan = << >>
    /\ rpc' = "obs"
    /\ cyc' = [NewCycle EXCEPT !.kind = "none"]
    /\ UNCHANGED <<system, peer, connected, socks, chan, sent, first_cmd, lastValid, limits, hwPos, errBudget,
                   arrived, superseded, lastRead, applied, cmdPub, lastWrite, obsSkipped,
                   exitCause>>
    /\ UNCHANGED <<msgLimit, classVars, engVars>>

\* json.loads fails: warning, continue (the rest of the cycle is skipped).
RecvMalformed ==
    /\ rpc = "recv"
    /\ chan # << >>
    /\ Head(chan).utf8 /\ Head(chan).bad
    /\ chan' = Tail(chan)
    /\ lastRead' = [id |-> Head(chan).id, last |-> arrived[Len(arrived)], kind |-> "badjson"]
    /\ arrived' = << >>
    /\ obsSkipped' = TRUE
    /\ cyc' = NewCycle
    /\ UNCHANGED <<system, peer, connected, socks, sent, rpc, first_cmd, lastValid, limits, hwPos, errBudget,
                   superseded, applied, cmdPub, lastWrite, exitCause>>
    /\ UNCHANGED <<msgLimit, classVars, engVars>>

\* recv_string cannot decode the bytes as UTF-8: UnicodeDecodeError, which
\* neither except clause inside the loop names, leaves the loop.
RecvUndecodable ==
    /\ rpc = "recv"
    /\ chan # << >>
    /\ ~Head(chan).utf8
    /\ chan' = Tail(chan)
    /\ lastRead' = [id |-> Head(chan).id, last |-> arrived[Len(arrived)], kind |-> "badutf8"]
    /\ arrived' = << >>
    /\ rpc' = "finally"
    /\ exitCause' = "decode"
    /\ cyc' = NewCycle
    /\ UNCHANGED <<system, peer, connected, socks, sent, first_cmd, lastValid, limits, hwPos, errBudget,
                   superseded, applied, cmdPub, lastWrite, obsSkipped>>
    /\ UNCHANGED <<msgLimit, classVars, engVars>>

\* A well-formed command: robot.send_action(data), then pub_cmd.send_string.
RecvCommand ==
    /\ rpc = "recv"
    /\ chan # << >>
    /\ Head(chan).utf8 /\ ~Head(chan).bad
    /\ LET m == Head(chan) IN
       \E F \in Faults(errBudget) :
          LET r == RobotSendAction(system, lastValid, m.act, hwPos, limits, F) IN
          /\ chan' = Tail(chan)
          /\ lastRead' = [id |-> m.id, last |-> arrived[Len(arrived)], kind |-> "cmd"]
          /\ arrived' = << >>
          /\ first_cmd' = TRUE
          /\ applied' = applied \cup {m.id}
          /\ cmdPub' = IF r.raised THEN cmdPub ELSE cmdPub \cup {m.id}
          /\ errBudget' = errBudget - Cardinality(F)
          /\ lastValid' = [s \in Sides |-> r.arm[s].lv]
          /\ lastWrite' = Written(r, m.id, m.act)
          /\ cyc' = [NewCycle EXCEPT !.kind = "cmd"]
          /\ IF r.raised
             THEN rpc' = "finally" /\ exitCause' = "exception"
             ELSE rpc' = "obs" /\ UNCHANGED exitCause
    /\ UNCHANGED <<system, peer, connected, socks, sent, limits, hwPos, superseded, obsSkipped>>
    /\ UNCHANGED <<msgLimit, classVars, engVars>>

\* obs = robot.get_observation(), a driver read of both arms, then
\* push_obs.send_string(NOBLOCK) and pub_obs.send_string(NOBLOCK), each sent
\* or dropped on zmq.Again.  An exception from the read leaves the loop.
SendOutcomes == {"sent", "again"}
\* A send that waits until a peer takes the message.
SendBlocking(ready) == IF ready THEN {"sent"} ELSE {}
\* send_string(..., flags=zmq.NOBLOCK): zmq.Again at once when no peer is
\* ready (or its queue is full).
SendNoBlock(ready) == IF ready THEN SendOutcomes ELSE {"again"}
\* Sends in which a failed push_obs send ends the cycle's publishing.
ObsSendsUntilFailure(ready) ==
    {o \in SendNoBlock(ready) \X (SendNoBlock(ready) \cup {"no"}) :
        o[2] = "no" <=> o[1] = "again"}
\* The two observation sends of a cycle, each in its own try/except
\* zmq.Again: <<outcome of push_obs, outcome of pub_obs>>.
ObsSends(ready) == SendNoBlock(ready) \X SendNoBlock(ready)
Publish ==
    /\ rpc = "obs"
    /\ \E fail \in {f \in BOOLEAN : f => errBudget > 0} :
          IF fail
          THEN /\ rpc' = "finally"
               /\ exitCause' = "exception"
               /\ errBudget' = errBudget - 1
               /\ UNCHANGED cyc
          ELSE /\ rpc' = "sleep"
               /\ \E o \in ObsSends(peer) :
                     cyc' = [cyc EXCEPT !.obsRead = TRUE, !.push = o[1], !.pub = o[2]]
               /\ UNCHANGED <<exitCause, errBudget>>
    /\ UNCHANGED <<system, peer, connected, socks, chan, sent, first_cmd, lastValid, limits, hwPos, arrived,
                   superseded, lastRead, applied, cmdPub, lastWrite, obsSkipped>>
    /\ UNCHANGED <<msgLimit, classVars, engVars>>

\* A cycle end that waits for the enable listener to be idle.
SleepUntilRecovered ==
    /\ rpc = "sleep"
    /\ lpc = "idle"
    /\ rpc' = "recv"
    /\ obsSkipped' = (obsSkipped \/ ~cyc.obsRead \/ cyc.push = "no" \/ cyc.pub = "no")
    /\ cyc' = NewCycle
    /\ UNCHANGED <<system, peer, connected, socks, chan, sent, first_cmd, lastValid, limits, hwPos, errBudget,
                   arrived, superseded, lastRead, applied, cmdPub, lastWrite, exitCause>>
    /\ UNCHANGED <<msgLimit, classVars, engVars>>

\* time.sleep(sleep_dt): the cycle ends, the next one starts.
Sleep ==
    /\ rpc = "sleep"
    /\ rpc' = "recv"
    /\ obsSkipped' = (obsSkipped \/ ~cyc.obsRead \/ cyc.push = "no" \/ cyc.pub = "no")
    /\ cyc' = NewCycle
    /\ UNCHANGED <<system, peer, connected, socks, chan, sent, first_cmd, lastValid, limits, hwPos, errBudget,
                   arrived, superseded, lastRead, applied, cmdPub, lastWrite, exitCause>>
    /\ UNCHANGED <<msgLimit, classVars, engVars>>

\* KeyboardInterrupt anywhere in the loop.
Interrupt ==
    /\ rpc \in {"recv", "obs", "sleep"}
    /\ rpc' = "finally"
    /\ exitCause' = "interrupt"
    /\ UNCHANGED <<system, peer, connected, socks, chan, sent, first_cmd, lastValid, limits, hwPos, errBudget,
                   arrived, superseded, lastRead, applied, cmdPub, lastWrite, cyc,
                   obsSkipped>>
    /\ UNCHANGED <<msgLimit, classVars, engVars>>

\* finally: robot.disconnect(), the sockets are closed.
Finally ==
    /\ rpc = "finally"
    /\ rpc' = "exited"
    /\ chan' = << >>
    /\ connected' = FALSE
    /\ socks' = {}
    /\ UNCHANGED <<system, peer, sent, first_cmd, lastValid, limits, hwPos, errBudget, arrived, superseded, lastRead, applied, cmdPub, lastWrite, cyc, obsSkipped,
                   exitCause>>
    /\ UNCHANGED <<msgLimit, classVars, engVars>>

\* main() between robot.connect() and the loop: context.socket(...) and
\* bind(...) for the next socket; bind raises when the port is taken, and
\* that happens before the try statement is entered.
CreateSocket ==
    /\ rpc = "setup"
    /\ LET n == SockOrder[Cardinality(socks) + 1] IN
       \E bound \in BOOLEAN :
          /\ socks' = socks \cup {n}
          /\ IF bound
             THEN /\ rpc' = IF socks' = Sockets THEN "recv" ELSE "setup"
                  /\ UNCHANGED exitCause
             ELSE /\ rpc' = "exited"
                  /\ exitCause' = "bind"
    /\ UNCHANGED <<system, peer, connected, chan, sent, first_cmd, lastValid, limits, hwPos,
                   errBudget, arrived, superseded, lastRead, applied, cmdPub, lastWrite,
                   cyc, obsSkipped>>
    /\ UNCHANGED <<msgLimit, classVars, engVars>>

RelayNext ==
    \/ Arrive
    \/ RecvNone
    \/ RecvMalformed
    \/ RecvUndecodable
    \/ RecvCommand
    \/ Publish
    \/ Sleep
    \/ Interrupt
    \/ Finally

\* ------------------------------------------- a follower driven directly
\* A caller hands a command to the follower's send_action.
SendAction ==
    /\ rpc = "off"
    /\ sent < msgLimit
    /\ \E act \in Commands(system), F \in Faults(errBudget) :
          LET r == RobotSendAction(system, lastValid, act, hwPos, limits, F) IN
          /\ lastValid' = [s \in Sides |-> r.arm[s].lv]
          /\ lastWrite' = Written(r, sent + 1, act)
          /\ errBudget' = errBudget - Cardinality(F)
    /\ sent' = sent + 1
    /\ applied' = applied \cup {sent + 1}
    /\ UNCHANGED cmdPub
    /\ UNCHANGED <<system, peer, connected, socks, chan, rpc, first_cmd, limits, hwPos, arrived, superseded,
                   lastRead, cyc, obsSkipped, exitCause>>
    /\ UNCHANGED <<msgLimit, classVars, engVars>>

\* piper_robot.py set_motors_engaged(True) on both arms: enable_motors reads
\* the joint limits; an SDK error before that leaves them unset.
SetMotorsEngaged ==
    /\ rpc = "off"
    /\ system = "piper_min"
    /\ \E s \in Sides : ~limits[s]
    /\ \E F \in {X \in SUBSET Sides : Cardinality(X) <= errBudget} :
          /\ limits' = [s \in Sides |-> limits[s] \/ s \notin F]
          /\ errBudget' = errBudget - Cardinality(F)
    /\ UNCHANGED <<system, peer, connected, socks, chan, sent, rpc, first_cmd, lastValid, hwPos, arrived,
                   superseded, lastRead, applied, cmdPub, lastWrite, cyc, obsSkipped, exitCause>>
    /\ UNCHANGED <<msgLimit, classVars, engVars>>

\* ---- key routing: the bimanual send_action on keys of both spellings
\* "<side>." before the joint name, next to the "<side>_" the follower strips.
DotPrefix(side) == IF side = "left" THEN "left." ELSE "right."
RoutedKeys == {<<"left.", "joint_0.pos">>, <<"left_", "joint_0.pos">>,
               <<"left.", "shoulder_lift.pos">>, <<"right_", "joint_1.pos">>,
               <<"right.", "joint_1.pos">>}
RoutedCommands == UNION {[K -> CmdValues] : K \in (SUBSET RoutedKeys) \ {{}}}
\* An arm's cache after an earlier command put joint 0 at 0 and the others
\* at 10.
EarlierCommand == [j \in 1 .. NumJoints |-> IF j = 1 THEN 0 ELSE 10]

SendRouted ==
    /\ rpc = "off"
    /\ sent < msgLimit
    /\ \E act \in RoutedCommands, F \in Faults(errBudget) :
          LET r == RobotSendAction(system, lastValid, act, hwPos, limits, F) IN
          /\ lastValid' = [s \in Sides |-> r.arm[s].lv]
          /\ lastWrite' = Written(r, sent + 1, act)
          /\ errBudget' = errBudget - Cardinality(F)
          /\ rtIn' = act
    /\ sent' = sent + 1
    /\ applied' = applied \cup {sent + 1}
    /\ UNCHANGED cmdPub
    /\ UNCHANGED <<system, peer, connected, socks, chan, rpc, first_cmd, limits, hwPos, arrived, superseded,
                   lastRead, cyc, obsSkipped, exitCause>>
    /\ UNCHANGED <<msgLimit, clIn, clOut, scIn, scOut, tm, cn, rq, ym, engVars>>

FollowerNext ==
    \/ SendAction
    \/ SetMotorsEngaged

\* =============================================== motor health (listener)
\* Keys of the per-motor status dict that are fault flags.
Flags == {"has_error", "collision", "stall", "driver_overheating", "motor_overheating",
          "overcurrent", "voltage_low", "voltage_too_high", "driver_fault",
          "motor_fault", "communication_error", "watchdog_triggered", "emergency_stop"}
\* Flags read with getattr(foc, name, False): absent on some SDK versions.
OptionalFlags == {"voltage_too_high", "driver_fault", "motor_fault",
                  "communication_error", "watchdog_triggered", "emergency_stop"}

\* dict.get(key, default)
Get(d, key, default) == IF key \in DOMAIN d THEN d[key] ELSE default

\* get_detailed_motor_status: the status dict of one joint motor, from the
\* motor's foc_status (raw.en, raw.fl) and the attributes the SDK exposes.
DetailedStatus(i, raw, exposed) ==
    [motor_num |-> i,
     d |-> [k \in {"enabled", "overheating"} \cup Flags |->
              CASE k = "enabled" -> raw.en
                [] k = "overheating" ->
                     ("driver_overheating" \in raw.fl \/ "motor_overheating" \in raw.fl)
                [] k \in OptionalFlags -> (k \in exposed /\ k \in raw.fl)
                [] OTHER -> k \in raw.fl]]

\* get_gripper_status: the status dict of the gripper (motor 7).
GripperStatus(raw) ==
    [motor_num |-> GripperMotor,
     d |-> [k \in {"enabled", "has_error", "collision", "stall", "overheating",
                   "overcurrent", "voltage_low"} |->
              CASE k = "enabled" -> raw.en
                [] k \in {"collision", "stall"} -> FALSE
                [] k = "overheating" ->
                     ("driver_overheating" \in raw.fl \/ "motor_overheating" \in raw.fl)
                [] OTHER -> k \in raw.fl]]

\* ArmController.needs_enable
needs_enable_no_estop(d) ==
    \/ ~d["enabled"]
    \/ d["has_error"] \/ d["collision"] \/ d["stall"]
    \/ \E k \in {"driver_overheating", "motor_overheating", "overcurrent", "voltage_low",
                  "voltage_too_high", "driver_fault", "motor_fault",
                  "communication_error", "watchdog_triggered"} : Get(d, k, FALSE)
needs_enable(d) ==
    \/ ~d["enabled"]
    \/ d["has_error"] \/ d["collision"] \/ d["stall"]
    \/ \E k \in {"driver_overheating", "motor_overheating", "overcurrent", "voltage_low",
                  "voltage_too_high", "driver_fault", "motor_fault",
                  "communication_error", "watchdog_triggered", "emergency_stop"} :
          Get(d, k, FALSE)

\* The three-way reading of a status the enable loop makes: enabled and no
\* issues, enabled with issues (zombie), or disabled.
Classify(d) ==
    IF d["enabled"] /\ ~needs_enable(d) THEN "Healthy"
    ELSE IF d["enabled"] /\ needs_enable(d) THEN "Zombie"
    ELSE "NeedsEnable"

\* show_status: the issues listed for a motor, and its zombie test.
ShowIssues(d) ==
    {k \in {"has_error", "collision", "stall"} : d[k]}
    \cup {k \in Flags \ {"has_error", "collision", "stall"} : Get(d, k, FALSE)}
ShowZombie(d) == d["enabled"] /\ ShowIssues(d) # {}

\* ---- classification of one status, as a state machine over its inputs
ClassifyInit ==
    /\ clIn \in [en : BOOLEAN, fl : SUBSET Flags, exposed : {{}, OptionalFlags}]
    /\ clOut = [class |-> "none", zombie |-> FALSE, gripper |-> "none"]

ClassifyStep ==
    /\ clOut.class = "none"
    /\ LET st == DetailedStatus(1, [en |-> clIn.en, fl |-> clIn.fl], clIn.exposed)
           gr == GripperStatus([en |-> clIn.en, fl |-> clIn.fl])
       IN  clOut' = [class |-> Classify(st.d), zombie |-> ShowZombie(st.d),
                     gripper |-> Classify(gr.d)]
    /\ UNCHANGED <<clIn, scIn, scOut, rtIn, tm, cn, rq, ym>>

\* ---- set_joint_positions on one joint, as a state machine over its inputs
\* The limits installed when the SDK reports none (0.1 degree; gripper mm).
DefaultMin == <<-1500, 0, -1700, -1000, -700, -1200, 0>>
DefaultMax == <<1500, 1800, 0, 1000, 700, 1200, 10>>
\* Normalized commands, inside and outside the nominal range.
NormCmds == {-200, -150, -100, -50, 0, 50, 100, 150, 200}
Inverted == {1, 4, 6}

\* min_pos[i] + (max_pos[i] - min_pos[i]) * (pos + 100) / 200 for a joint,
\* min_pos[6] + (max_pos[6] - min_pos[6]) * pos / 100 for the gripper.
\* The divisions are exact for the limits and commands above.
ScaledPosition(lo, hi, j, pos) ==
    IF j = GripperMotor
    THEN lo[j] + ((hi[j] - lo[j]) * pos) \div 100
    ELSE lo[j] + ((hi[j] - lo[j]) * (pos + 100)) \div 200

\* What GetAllMotorAngleLimitMaxSpd reports for the six joints: all zero, or
\* the angles of the table above. The gripper's [0, 10] is always appended.
LimitReads == {"zero", "table"}
ReadMin(read) == IF read = "zero" THEN <<0, 0, 0, 0, 0, 0, 0>> ELSE DefaultMin
ReadMax(read) == IF read = "zero" THEN <<0, 0, 0, 0, 0, 0, 10>> ELSE DefaultMax
AllZero(lo, hi) == \A i \in JointMotors : lo[i] = 0 /\ hi[i] = 0
\* self.min_pos / self.max_pos: robots/piper keeps what was read; the
\* root-level interface installs the default table when all twelve are zero.
min_pos(family, read) ==
    IF family = "piper_min" /\ AllZero(ReadMin(read), ReadMax(read))
    THEN DefaultMin ELSE ReadMin(read)
max_pos(family, read) ==
    IF family = "piper_min" /\ AllZero(ReadMin(read), ReadMax(read))
    THEN DefaultMax ELSE ReadMax(read)
\* The integer handed to JointCtrl / GripperCtrl.
WireValue(j, phys) ==
    IF j = GripperMotor THEN phys * 10000
    ELSE IF j \in Inverted THEN -(100 * phys) ELSE 100 * phys

\* get_status: "joint_<i>.pos" is the driver's joint_state / grippers_angle
\* field as read, which for a joint sitting at the commanded position is
\* the integer that was handed to JointCtrl / GripperCtrl.
get_status(j, reading) == reading

NoScaled == [written |-> FALSE, phys |-> 0, wire |-> 0, obs |-> 0]
ScaleIdle == scIn = [family |-> "piper", read |-> "table", joint |-> 1, pos |-> 0]
             /\ scOut = NoScaled
ScaleInit ==
    /\ scIn \in [family : {"piper", "piper_min"}, read : LimitReads,
                  joint : Motors, pos : NormCmds]
    /\ scOut = NoScaled
SetJointPositions ==
    /\ ~scOut.written
    /\ LET phys == ScaledPosition(min_pos(scIn.family, scIn.read),
                                  max_pos(scIn.family, scIn.read), scIn.joint, scIn.pos)
           wire == WireValue(scIn.joint, phys)
       IN  scOut' = [written |-> TRUE, phys |-> phys, wire |-> wire,
                     obs |-> get_status(scIn.joint, wire)]
    /\ UNCHANGED <<clIn, clOut, scIn, rtIn, tm, cn, rq, ym>>

ClassifyRest == clIn = [en |-> TRUE, fl |-> {}, exposed |-> {}]
                /\ clOut = [class |-> "none", zombie |-> FALSE, gripper |-> "none"]
RouteIdle == rtIn = << >>

\* ---- the relay loop against the clock, in ticks
\* 1.0 / max_loop_hz, the longest a step of the cycle's work takes, and the
\* time at which the run is cut off.
CycleBudget == 2
MaxWork == 3
MaxTicks == 8
CycleKinds == {"none", "cmd", "badjson"}
TimingStart == [pc |-> "start", now |-> 0, loop_start |-> 0, kind |-> "none",
                cycles |-> 0, gap |-> 0, work |-> 0]
TimingIdle == tm = TimingStart

\* sleep_dt = max(1.0 / max_loop_hz - (time.time() - loop_start), 0)
sleep_dt(now, start) ==
    IF CycleBudget - (now - start) > 0 THEN CycleBudget - (now - start) ELSE 0

\* The top of a cycle starts at tm.now: the cycle that ends there is counted.
NextCycle(t, now) ==
    [t EXCEPT !.pc = "start", !.now = now, !.cycles = 1,
              !.gap = now - t.loop_start, !.work = t.now - t.loop_start]

\* loop_start = time.time(); recv_string, json.loads, send_action and
\* pub_cmd.send_string take w ticks; a malformed message continues.
TimedRecv ==
    /\ tm.pc = "start"
    /\ tm.now < MaxTicks
    /\ \E kind \in CycleKinds, w \in 0 .. MaxWork :
          LET t == [tm EXCEPT !.loop_start = tm.now, !.kind = kind, !.now = tm.now + w]
          IN  tm' = IF kind = "badjson" THEN NextCycle(t, t.now)
                    ELSE [t EXCEPT !.pc = "obs"]
    /\ UNCHANGED <<clIn, clOut, scIn, scOut, rtIn, cn, rq, ym, relayVars, engVars>>

\* get_observation and the two observation sends take w ticks.
TimedPublish ==
    /\ tm.pc = "obs"
    /\ \E w \in 0 .. MaxWork : tm' = [tm EXCEPT !.pc = "sleep", !.now = tm.now + w]
    /\ UNCHANGED <<clIn, clOut, scIn, scOut, rtIn, cn, rq, ym, relayVars, engVars>>

\* time.sleep(sleep_dt)
TimedSleep ==
    /\ tm.pc = "sleep"
    /\ tm' = NextCycle(tm, tm.now + sleep_dt(tm.now, tm.loop_start))
    /\ UNCHANGED <<clIn, clOut, scIn, scOut, rtIn, cn, rq, ym, relayVars, engVars>>

\* ---- robot.connect() of a bimanual Piper follower: left arm, then right
\* EnablePiper calls counted per arm up to this number.
MaxEnableCalls == 8
ConnectStart(family) ==
    [family |-> family, arm |-> "left", pc |-> "port",
     calls |-> [s \in Sides |-> 0], result |-> "none"]
ConnectIdle == cn = ConnectStart("piper")

\* Piper.connect has finished on cn.arm: self._is_connected = True.
ArmConnected(c) ==
    IF c.arm = "left" THEN [c EXCEPT !.arm = "right", !.pc = "port"]
    ELSE [c EXCEPT !.pc = "done", !.result = "connected"]
\* An exception leaves Piper.connect and robot.connect().
ConnectRaised(c) == [c EXCEPT !.pc = "done", !.result = "failed"]
Counted(c) == [c EXCEPT !.calls[c.arm] = IF @ < MaxEnableCalls THEN @ + 1 ELSE @]

\* PiperSDKInterface.__init__: C_PiperInterface_V2(port), ConnectPort().
\* The root-level interface, built with auto_enable_on_connect=False, is
\* finished after that.
ConnectPort ==
    /\ cn.pc = "port"
    /\ \E raise \in BOOLEAN :
          cn' = IF raise THEN ConnectRaised(cn)
                ELSE IF cn.family = "piper_min" THEN ArmConnected(cn)
                ELSE [cn EXCEPT !.pc = "enable"]
    /\ UNCHANGED <<clIn, clOut, scIn, scOut, rtIn, tm, rq, ym, relayVars, engVars>>

\* while not self.piper.EnablePiper(): the call and its answer
EnableCall ==
    /\ cn.pc = "enable"
    /\ \E answer \in {"true", "false", "raise"} :
          cn' = CASE answer = "raise" -> ConnectRaised(Counted(cn))
                  [] answer = "true" -> [Counted(cn) EXCEPT !.pc = "setup"]
                  [] answer = "false" -> [Counted(cn) EXCEPT !.pc = "wait"]
    /\ UNCHANGED <<clIn, clOut, scIn, scOut, rtIn, tm, rq, ym, relayVars, engVars>>

\* time.sleep(0.01), then the loop condition again
EnableWait ==
    /\ cn.pc = "wait"
    /\ cn' = [cn EXCEPT !.pc = "enable"]
    /\ UNCHANGED <<clIn, clOut, scIn, scOut, rtIn, tm, rq, ym, relayVars, engVars>>

\* MotionCtrl_2, GripperCtrl, GetAllMotorAngleLimitMaxSpd
ConnectSetup ==
    /\ cn.pc = "setup"
    /\ \E raise \in BOOLEAN :
          cn' = IF raise THEN ConnectRaised(cn) ELSE ArmConnected(cn)
    /\ UNCHANGED <<clIn, clOut, scIn, scOut, rtIn, tm, rq, ym, relayVars, engVars>>

\* ---- the enable listeners' dispatch of one command to the arms
\* Commands dispatched in one run.
MaxCmds == 3
Listeners == {"piper", "yam"}
Selectors == {"left", "right", "both"}
CmdTypes == {"enable", "status"}
NoRun == [ran |-> 0, partial |-> FALSE, ok |-> FALSE]
DispatchStart(listener) ==
    [listener |-> listener, n |-> 0,
     cmd |-> [type |-> "enable", arm |-> "left", partial |-> FALSE],
     run |-> [s \in Sides |-> NoRun]]
DispatchIdle == rq = DispatchStart("piper")

\* One call of enable_motors on an arm, with the mode it was given and the
\* result it returned.
EnableMotorsCall(partial, ok) == [ran |-> 1, partial |-> partial, ok |-> ok]

\* self.arms of MotorEnableListener: its keys
arms == {"left", "right"}

\* MotorEnableListener.process_enable_command on one received command:
\* a type other than "enable" returns; an arm found in self.arms has
\* enable_motors called; any other arm is reported as unknown.
ProcessEnableCommand ==
    /\ rq.listener = "piper"
    /\ rq.n < MaxCmds
    /\ \E type \in CmdTypes, arm \in Selectors, partial \in BOOLEAN, ok \in BOOLEAN :
          rq' = [rq EXCEPT
                   !.n = @ + 1,
                   !.cmd = [type |-> type, arm |-> arm, partial |-> partial],
                   !.run = [s \in Sides |->
                              IF type = "enable" /\ arm \in arms /\ s = arm
                              THEN EnableMotorsCall(partial, ok) ELSE NoRun]]
    /\ UNCHANGED <<clIn, clOut, scIn, scOut, rtIn, tm, cn, ym, relayVars, engVars>>

\* YAMMotorEnableListener.process_command on one received command: action
\* "enable" calls enable_motors on the left arm when the target is left or
\* both, then on the right arm when it is right or both; "status" reads.
ProcessCommand ==
    /\ rq.listener = "yam"
    /\ rq.n < MaxCmds
    /\ \E type \in CmdTypes, arm \in Selectors, partial \in BOOLEAN, ok \in [Sides -> BOOLEAN] :
          rq' = [rq EXCEPT
                   !.n = @ + 1,
                   !.cmd = [type |-> type, arm |-> arm, partial |-> partial],
                   !.run = [s \in Sides |->
                              IF type = "enable" /\ arm \in {s, "both"}
                              THEN EnableMotorsCall(partial, ok[s]) ELSE NoRun]]
    /\ UNCHANGED <<clIn, clOut, scIn, scOut, rtIn, tm, cn, ym, relayVars, engVars>>

\* ---- YAMMotorEnableListener.enable_motors on one arm
\* Motor ids of a YAM arm, range(1, 8) in the code, scaled down.
NumYamMotors == 2
YamMotorIds == 1..NumYamMotors
YamModes == {"partial", "full"}
\* What the motors of a chain report: TRUE where error_code is 0x1.
ChainStates == UNION {[P -> BOOLEAN] : P \in SUBSET YamMotorIds}
NoStatus == [m \in {} |-> FALSE]

\* get_motor_status: the status of every motor read_states() reports, and
\* the empty dict when read_states() raises.
get_motor_status(hw, readOk) == IF readOk THEN hw ELSE NoStatus

\* The motors a call without motor_ids works on: all of them in full mode,
\* in partial mode the ones the status reports as not enabled.
MotorIdsFor(mode, current_status) ==
    IF mode = "full" THEN YamMotorIds
    ELSE {mid \in DOMAIN current_status : ~current_status[mid]}

\* A call of enable_motors before it has run: the chain (or none), the
\* motor_ids and mode it is given, and what the hardware will do: whether
\* each read_states() answers, whether clean_error raises, and whether a
\* cleared motor comes back enabled.
YamCalls ==
    [chain : BOOLEAN, hw : ChainStates, given : BOOLEAN, motor_ids : SUBSET YamMotorIds,
     mode : YamModes, read1 : BOOLEAN, read2 : BOOLEAN, raises : BOOLEAN, recovers : BOOLEAN,
     pc : {"call"}, ret : {FALSE}, cleared : {{}}, checked : {FALSE}]
YamIdle ==
    ym = [chain |-> TRUE, hw |-> NoStatus, given |-> FALSE, motor_ids |-> {}, mode |-> "partial",
          read1 |-> TRUE, read2 |-> TRUE, raises |-> FALSE, recovers |-> TRUE,
          pc |-> "idle", ret |-> FALSE, cleared |-> {}, checked |-> FALSE]

YamReturn(c, ret, cleared, checked) ==
    [c EXCEPT !.pc = "returned", !.ret = ret, !.cleared = cleared, !.checked = checked]

\* enable_motors: no chain returns False; with no motor to work on it
\* returns True; otherwise clean_error on every chosen motor found in the
\* status, a second status read, and True if every chosen motor then reads
\* enabled. An exception returns False.
YamEnableMotors(c) ==
    LET current_status == get_motor_status(c.hw, c.read1)
        motor_ids == IF c.given THEN c.motor_ids ELSE MotorIdsFor(c.mode, current_status)
        toClear == motor_ids \cap DOMAIN current_status
        after == [m \in DOMAIN c.hw |-> c.hw[m] \/ (m \in toClear /\ c.recovers)]
        new_status == get_motor_status(after, c.read2)
        success == \A mid \in motor_ids : mid \in DOMAIN new_status /\ new_status[mid]
    IN  IF ~c.chain THEN YamReturn(c, FALSE, {}, FALSE)
        ELSE IF motor_ids = {} THEN YamReturn(c, TRUE, {}, FALSE)
        ELSE IF c.raises /\ toClear # {}
             THEN YamReturn(c, FALSE, {CHOOSE m \in toClear : \A o \in toClear : m <= o}, FALSE)
        ELSE YamReturn(c, success, toClear, TRUE)

EnableMotorsYam ==
    /\ ym.pc = "call"
    /\ ym' = YamEnableMotors(ym)
    /\ UNCHANGED <<clIn, clOut, scIn, scOut, rtIn, tm, cn, rq, relayVars, engVars>>


ClassifyIdle == ClassifyRest /\ ScaleIdle /\ RouteIdle /\ TimingIdle /\ ConnectIdle /\ DispatchIdle /\ YamIdle

\* ============================================ enable listener (engine)
\* Attributes the SDK in use exposes on foc_status.
SdkExposed == OptionalFlags


\* get_all_motor_status: joint statuses (empty when the read fails) followed
\* by the gripper status (left out when its read fails).
AllMotorStatus(hw, jointsOk, gripOk) ==
    (IF jointsOk THEN [i \in JointMotors |-> DetailedStatus(i, hw[i], SdkExposed)] ELSE << >>)
    \o (IF gripOk THEN << GripperStatus(hw[GripperMotor]) >> ELSE << >>)

\* The reason tokens _partial_enable_motors joins into reason_str.
Reasons(d) ==
    (IF ~d["enabled"] THEN {"disabled"} ELSE {})
    \cup (IF d["has_error"] THEN {"error"} ELSE {})
    \cup (IF d["collision"] THEN {"collision"} ELSE {})
    \cup (IF d["stall"] THEN {"stall"} ELSE {})
    \cup (IF Get(d, "driver_overheating", FALSE) THEN {"driver-hot"} ELSE {})
    \cup (IF Get(d, "motor_overheating", FALSE) THEN {"motor-hot"} ELSE {})
    \cup (IF Get(d, "overcurrent", FALSE) THEN {"overcurrent"} ELSE {})
    \cup (IF Get(d, "voltage_low", FALSE) THEN {"low-volt"} ELSE {})
    \cup (IF Get(d, "voltage_too_high", FALSE) THEN {"high-volt"} ELSE {})
    \cup (IF Get(d, "driver_fault", FALSE) THEN {"driver-fault"} ELSE {})
    \cup (IF Get(d, "motor_fault", FALSE) THEN {"motor-fault"} ELSE {})
    \cup (IF Get(d, "communication_error", FALSE) THEN {"comm-error"} ELSE {})
    \cup (IF Get(d, "watchdog_triggered", FALSE) THEN {"watchdog"} ELSE {})
    \cup (IF Get(d, "emergency_stop", FALSE) THEN {"e-stop"} ELSE {})

NeedsFix(st) == needs_enable(st.d)
IsArmMotor(st) == st.motor_num # GripperMotor /\ NeedsFix(st)
\* Every joint motor's status, whatever it reads.
IsJoint(st) == st.motor_num # GripperMotor
AllJointMotors(all) == SelectSeq(all, IsJoint)
\* arm_motors_to_enable, as the statuses of the joint motors that need a fix
ArmMotorsToEnable(all) == SelectSeq(all, IsArmMotor)
GripperAlways(all) == \E i \in DOMAIN all : all[i].motor_num = GripperMotor
GripperNeedsEnable(all) ==
    \E i \in DOMAIN all : all[i].motor_num = GripperMotor /\ NeedsFix(all[i])

\* collision_detected or thermal_detected over arm_motors_to_enable
Escalates(sts) ==
    \E i \in DOMAIN sts : Reasons(sts[i].d) \cap {"collision", "motor-hot"} # {}

NoEng == [arm |-> "left", partial |-> FALSE, mode |-> "idle", todo |-> << >>,
          gripper |-> FALSE, idx |-> 0, attempts |-> 0, success |-> 0]
NoOutcome == [n |-> 0, arm |-> "left", result |-> "none", partial |-> FALSE,
              mode |-> "idle", read |-> {}, diag |-> << >>, todo |-> {},
              log |-> << >>, hwEnd |-> << >>]

EngineInit ==
    /\ motors = [s \in Sides |-> [m \in Motors |-> HealthyRaw]]
    /\ lpc = "idle"
    /\ eng = NoEng
    /\ log = << >>
    /\ diag = [read |-> {}, hw |-> << >>]
    /\ outcome = NoOutcome
    /\ lock = [s \in Sides |-> FALSE]
    /\ served = 0
    /\ skipped = 0

\* "with self.lock:" left, by return or by the caught exception.
StillHeld(lk, arm) == lk
Release(lk, arm) == [lk EXCEPT ![arm] = FALSE]

\* A variant in which a failed request is started over by the listener.
FinishRetry(e, dg, result, cmds, hw) ==
    /\ lpc' = IF result = "failed" THEN "full_clear" ELSE "idle"
    /\ outcome' = [n |-> served, arm |-> e.arm, result |-> result,
                   partial |-> e.partial, mode |-> e.mode, read |-> dg.read,
                   diag |-> dg.hw,
                   todo |-> Range(e.todo) \cup (IF e.gripper THEN {GripperMotor} ELSE {}),
                   log |-> log \o cmds, hwEnd |-> hw]
    /\ eng' = IF result = "failed" THEN e ELSE NoEng
    /\ log' = << >>
    /\ diag' = [read |-> {}, hw |-> << >>]
    /\ lock' = Release(lock, e.arm)

\* A request has ended: enable_motors returns, the lock is released, and
\* process_enable_command reports the result.
Finish(e, dg, result, cmds, hw) ==
    /\ lpc' = "idle"
    /\ outcome' = [n |-> served, arm |-> e.arm, result |-> result,
                   partial |-> e.partial, mode |-> e.mode, read |-> dg.read,
                   diag |-> dg.hw,
                   todo |-> Range(e.todo) \cup (IF e.gripper THEN {GripperMotor} ELSE {}),
                   log |-> log \o cmds, hwEnd |-> hw]
    /\ eng' = NoEng
    /\ log' = << >>
    /\ diag' = [read |-> {}, hw |-> << >>]
    /\ lock' = Release(lock, e.arm)

Continue(pc, e, cmds) ==
    /\ lpc' = pc
    /\ eng' = e
    /\ log' = log \o cmds
    /\ UNCHANGED <<outcome, lock, diag>>

\* run(): a message on the enable socket; process_enable_command calls
\* enable_motors on the named arm, which takes that arm's lock.
ReceiveEnable ==
    /\ lpc = "idle"
    /\ served < reqLimit
    /\ \E arm \in Sides, partial \in BOOLEAN :
          /\ eng' = [NoEng EXCEPT !.arm = arm, !.partial = partial,
                                  !.mode = IF partial THEN "partial" ELSE "full"]
          /\ lpc' = IF partial THEN "diag" ELSE "full_clear"
          /\ lock' = [lock EXCEPT ![arm] = TRUE]
          /\ diag' = [read |-> {}, hw |-> motors[arm]]
    /\ served' = served + 1
    /\ outcome' = NoOutcome
    /\ UNCHANGED <<motors, log, reqLimit, skipped, faultLimit, faults, max_attempts,
                   errBudget, relayOnly, classVars>>

\* run(): a message that recv_string cannot decode or json.loads cannot
\* parse; the except clauses print it and the loop polls again.
EnableSkipped ==
    /\ lpc = "idle"
    /\ served < reqLimit
    /\ \E kind \in MsgKinds \ {"cmd"} : skipped' = skipped + 1
    /\ served' = served + 1
    /\ UNCHANGED <<motors, lpc, eng, log, diag, outcome, lock, reqLimit, faultLimit, faults,
                   max_attempts, errBudget, relayOnly, classVars>>

\* The position _full_enable_motors starts at when the partial path hands
\* the request over (return self._full_enable_motors(max_attempts)).
PartialReentry == "p_enable"
FullResetEntry == "full_clear"

\* _partial_enable_motors up to the mode decision: read all statuses, pick
\* the motors to enable, return early or escalate.
Diagnose ==
    /\ lpc = "diag"
    /\ \E R \in {X \in SUBSET {"joints", "gripper"} : 2 - Cardinality(X) <= errBudget} :
          LET hw == motors[eng.arm]
              all == AllMotorStatus(hw, "joints" \in R, "gripper" \in R)
              sts == ArmMotorsToEnable(all)
              e == [eng EXCEPT !.todo = [i \in DOMAIN sts |-> sts[i].motor_num],
                               !.gripper = GripperNeedsEnable(all),
                               !.idx = 1]
              dg == [read |-> R, hw |-> hw]
          IN  /\ errBudget' = errBudget - (2 - Cardinality(R))
              /\ IF all = << >> THEN Finish(e, dg, "failed", << >>, hw)
                 ELSE IF e.todo = << >> /\ ~e.gripper THEN Finish(e, dg, "done", << >>, hw)
                 ELSE /\ diag' = dg
                      /\ log' = log
                      /\ UNCHANGED <<outcome, lock>>
                      /\ IF Escalates(sts)
                         THEN lpc' = FullResetEntry /\ eng' = [e EXCEPT !.mode = "full"]
                         ELSE /\ eng' = e
                              /\ lpc' = IF e.todo # << >> THEN "p_clear" ELSE "p_gripper"
    /\ UNCHANGED <<motors, served, reqLimit, skipped, faultLimit, faults, max_attempts,
                   relayOnly, classVars>>

\* The hardware after error registers were cleared (or not) on joints J and
\* motors D were disabled.
AfterClear(hw, J, clr, D) ==
    [m \in Motors |-> [en |-> hw[m].en /\ m \notin D,
                       fl |-> IF clr /\ m \in J THEN {} ELSE hw[m].fl]]

ClearCmds(todo) == << <<"EmergencyStop">> >>
                   \o [i \in DOMAIN todo |-> <<"JointConfig", todo[i]>>]
                   \o << <<"JointConfig", 7>> >>
ZombieResetCmds(todo) ==
    [i \in 1 .. 2 * Len(todo) |->
        IF i % 2 = 1 THEN <<"DisableArm", todo[(i + 1) \div 2]>>
        ELSE <<"JointConfig", todo[i \div 2]>>]

\* "Aggressive error clearing": steps 1-3 (an exception ends the request)
\* and step 4, the zombie reset, inside its own try/except.
PartialClear ==
    /\ lpc = "p_clear"
    /\ \E fail \in {f \in {"no", "clear", "reset"} : f # "no" => errBudget > 0},
          clr \in BOOLEAN :
          LET hw == motors[eng.arm]
              T == Range(eng.todo)
              next == IF max_attempts = 0 THEN FullResetEntry ELSE "p_enable"
              e == IF max_attempts = 0 THEN [eng EXCEPT !.mode = "full"] ELSE eng
          IN  /\ errBudget' = IF fail = "no" THEN errBudget ELSE errBudget - 1
              /\ CASE fail = "clear" ->
                        /\ Finish(eng, diag, "failed", << >>, hw)
                        /\ UNCHANGED motors
                   [] fail = "reset" ->
                        /\ motors' = [motors EXCEPT ![eng.arm] = AfterClear(hw, JointMotors, clr, {})]
                        /\ Continue(next, e, ClearCmds(eng.todo))
                   [] fail = "no" ->
                        /\ motors' = [motors EXCEPT ![eng.arm] = AfterClear(hw, JointMotors, clr, T)]
                        /\ Continue(next, e, ClearCmds(eng.todo) \o ZombieResetCmds(eng.todo))
    /\ UNCHANGED <<served, reqLimit, skipped, faultLimit, faults, max_attempts, relayOnly, classVars>>

\* if attempts >= max_attempts, after the while loop of one motor
AttemptsNeverExhausted(attempts, max) == FALSE
AttemptsExhausted(attempts, max) == attempts >= max

\* The test that ends a motor's retry loop: "if enabled and not has_issues".
EnabledOnly(st) == st.d["enabled"]
EnabledNoIssues(st) == st.d["enabled"] /\ ~needs_enable(st.d)

SetEn(hw, M, on) == [m \in Motors |-> IF on /\ m \in M THEN [hw[m] EXCEPT !.en = TRUE] ELSE hw[m]]

\* One pass of the per-motor retry loop: EnableArm(motor, 0x02), re-read the
\* joint statuses, count the motor as recovered or count the attempt.
PartialAttempt ==
    /\ lpc = "p_enable"
    /\ eng.attempts < max_attempts
    /\ \E raise \in {r \in BOOLEAN : r => errBudget > 0},
          readOk \in {r \in BOOLEAN : ~r => errBudget > 0},
          on \in BOOLEAN :
          LET m == eng.todo[eng.idx]
              hw == SetEn(motors[eng.arm], {m}, on)
              st == DetailedStatus(m, hw[m], SdkExposed)
              good == readOk /\ EnabledNoIssues(st)
              last == eng.idx = Len(eng.todo)
              tried == eng.attempts + 1
          IN  IF raise
              THEN /\ Finish(eng, diag, "failed", << >>, motors[eng.arm])
                   /\ errBudget' = errBudget - 1
                   /\ UNCHANGED motors
              ELSE /\ motors' = [motors EXCEPT ![eng.arm] = hw]
                   /\ errBudget' = IF readOk THEN errBudget ELSE errBudget - 1
                   /\ IF good
                      THEN Continue(IF ~last THEN "p_enable"
                                    ELSE IF eng.gripper THEN "p_gripper" ELSE "p_final",
                                    [eng EXCEPT !.success = @ + 1, !.idx = @ + 1,
                                                !.attempts = 0],
                                    << <<"EnableArm", m>> >>)
                      ELSE IF AttemptsExhausted(tried, max_attempts)
                      THEN Continue(FullResetEntry,
                                    [eng EXCEPT !.mode = "full", !.attempts = tried],
                                    << <<"EnableArm", m>> >>)
                      ELSE Continue("p_enable", [eng EXCEPT !.attempts = tried],
                                    << <<"EnableArm", m>> >>)
    /\ UNCHANGED <<served, reqLimit, skipped, faultLimit, faults, max_attempts, relayOnly, classVars>>

\* enable_gripper: GripperCtrl(0, 1000, 0x03, 0), then the gripper counts as
\* recovered when its status reads enabled.
GripperVerified(st) == st["enabled"]
PartialGripper ==
    /\ lpc = "p_gripper"
    /\ \E raise \in {r \in BOOLEAN : r => errBudget > 0},
          readOk \in {r \in BOOLEAN : ~r => errBudget > 0},
          effect \in {"none", "enabled", "cleared"} :
          LET old == motors[eng.arm]
              g == CASE effect = "none" -> old[GripperMotor]
                     [] effect = "enabled" -> [old[GripperMotor] EXCEPT !.en = TRUE]
                     [] effect = "cleared" -> HealthyRaw
              hw == [old EXCEPT ![GripperMotor] = g]
              ok == readOk /\ GripperVerified(GripperStatus(g).d)
          IN  IF raise
              THEN /\ errBudget' = errBudget - 1
                   /\ UNCHANGED motors
                   /\ Continue("p_final", eng, << >>)
              ELSE /\ errBudget' = IF readOk THEN errBudget ELSE errBudget - 1
                   /\ motors' = [motors EXCEPT ![eng.arm] = hw]
                   /\ Continue("p_final",
                               [eng EXCEPT !.success = IF ok THEN @ + 1 ELSE @],
                               << <<"GripperCtrl", "enable">> >>)
    /\ UNCHANGED <<served, reqLimit, skipped, faultLimit, faults, max_attempts, relayOnly, classVars>>

\* The end of _partial_enable_motors: the final status is read and printed;
\* success is success_count == total_to_enable; MIT mode is restored.
\* MotionCtrl_2(0x01, 0x01, 0, 0xAD) inside try/except: the call is made,
\* an exception is printed, and the method returns True either way.
RestoreSkipped(raise) == << >>
RestoreCmd(raise) == << <<"MotionCtrl_2", IF raise THEN "raised" ELSE "sent">> >>
RestoreResultStrict(raise) == IF raise THEN "failed" ELSE "done"
RestoreResult(raise) == "done"

PartialSuccess(e) == e.success = Len(e.todo) + (IF e.gripper THEN 1 ELSE 0)
PartialFinal ==
    /\ lpc = "p_final"
    /\ \E raise \in {r \in BOOLEAN : r => (errBudget > 0 /\ PartialSuccess(eng))} :
          /\ errBudget' = IF raise THEN errBudget - 1 ELSE errBudget
          /\ IF PartialSuccess(eng)
             THEN Finish(eng, diag, RestoreResult(raise), RestoreCmd(raise),
                         motors[eng.arm])
             ELSE Finish(eng, diag, "failed", << >>, motors[eng.arm])
    /\ UNCHANGED <<motors, served, reqLimit, skipped, faultLimit, faults, max_attempts,
                   relayOnly, classVars>>

\* _full_enable_motors step 1: EmergencyStop(0x02), JointConfig(7, clear_err).
FullClear ==
    /\ lpc = "full_clear"
    /\ \E raise \in {r \in BOOLEAN : r => errBudget > 0}, clr \in BOOLEAN :
          IF raise
          THEN /\ errBudget' = errBudget - 1
               /\ UNCHANGED motors
               /\ Finish(eng, diag, "failed", << >>, motors[eng.arm])
          ELSE /\ UNCHANGED errBudget
               /\ motors' = [motors EXCEPT ![eng.arm] = AfterClear(@, JointMotors, clr, {})]
               /\ Continue("full_enable", [eng EXCEPT !.mode = "full", !.attempts = 0],
                           << <<"EmergencyStop">>, <<"JointConfig", 7>> >>)
    /\ UNCHANGED <<served, reqLimit, skipped, faultLimit, faults, max_attempts, relayOnly, classVars>>

\* step 2: while not EnablePiper() and attempts < max_attempts: attempts += 1
\* (one evaluation of the loop condition; the call and its answer are logged)
FullEnable ==
    /\ lpc = "full_enable"
    /\ \E raise \in {r \in BOOLEAN : r => errBudget > 0}, ret \in BOOLEAN, on \in BOOLEAN :
          IF raise
          THEN /\ errBudget' = errBudget - 1
               /\ UNCHANGED motors
               /\ Finish(eng, diag, "failed", << >>, motors[eng.arm])
          ELSE /\ UNCHANGED errBudget
               /\ motors' = [motors EXCEPT ![eng.arm] = SetEn(@, JointMotors, on)]
               /\ IF ~ret /\ eng.attempts < max_attempts
                  THEN Continue("full_enable", [eng EXCEPT !.attempts = @ + 1],
                                << <<"EnablePiper", ret>> >>)
                  ELSE Continue(IF eng.attempts >= max_attempts
                                THEN "full_force" ELSE "full_gripper",
                                eng, << <<"EnablePiper", ret>> >>)
    /\ UNCHANGED <<served, reqLimit, skipped, faultLimit, faults, max_attempts, relayOnly, classVars>>

\* the alternative method: EnableArm(0xFF, 0x02)
FullForce ==
    /\ lpc = "full_force"
    /\ \E raise \in {r \in BOOLEAN : r => errBudget > 0}, on \in BOOLEAN :
          IF raise
          THEN /\ errBudget' = errBudget - 1
               /\ UNCHANGED motors
               /\ Finish(eng, diag, "failed", << >>, motors[eng.arm])
          ELSE /\ UNCHANGED errBudget
               /\ motors' = [motors EXCEPT ![eng.arm] = SetEn(@, JointMotors, on)]
               /\ Continue("full_gripper", eng, << <<"EnableArm", 255>> >>)
    /\ UNCHANGED <<served, reqLimit, skipped, faultLimit, faults, max_attempts, relayOnly, classVars>>

\* GripperCtrl(0, 1000, 0x03, 0), GripperCtrl(0, 1000, 0x01, 0),
\* GripperCtrl(0, 1000, 0x01, 0xAE)
GripperResetMoveFirst == << <<"GripperCtrl", "move0">>, <<"GripperCtrl", "enable">>,
                           <<"GripperCtrl", "setzero">> >>
GripperResetCmds == << <<"GripperCtrl", "enable">>, <<"GripperCtrl", "move0">>,
                      <<"GripperCtrl", "setzero">> >>

\* step 3: the gripper reset, three GripperCtrl commands
FullGripper ==
    /\ lpc = "full_gripper"
    /\ \E raise \in {r \in BOOLEAN : r => errBudget > 0}, on \in BOOLEAN :
          IF raise
          THEN /\ errBudget' = errBudget - 1
               /\ UNCHANGED motors
               /\ Finish(eng, diag, "failed", << >>, motors[eng.arm])
          ELSE /\ UNCHANGED errBudget
               /\ motors' = [motors EXCEPT ![eng.arm][GripperMotor] =
                                IF on THEN HealthyRaw ELSE @]
               /\ Continue("full_verify", eng, GripperResetCmds)
    /\ UNCHANGED <<served, reqLimit, skipped, faultLimit, faults, max_attempts, relayOnly, classVars>>

\* The final check of _full_enable_motors: GetArmEnableStatus counts 6 and
\* the gripper reads enabled; then MIT mode is restored inside a try/except.
EnabledCount(hw, readOk) == IF readOk THEN Cardinality({m \in JointMotors : hw[m].en}) ELSE 0
FullVerify ==
    /\ lpc = "full_verify"
    /\ \E R \in {X \in SUBSET {"joints", "gripper"} : 2 - Cardinality(X) <= errBudget} :
          LET hw == motors[eng.arm]
              enabled_count == EnabledCount(hw, "joints" \in R)
              gripper_enabled == "gripper" \in R /\ GripperStatus(hw[GripperMotor]).d["enabled"]
              left == errBudget - (2 - Cardinality(R))
          IN  IF enabled_count = 6 /\ gripper_enabled
              THEN \E raise \in {r \in BOOLEAN : r => left > 0} :
                      /\ errBudget' = IF raise THEN left - 1 ELSE left
                      /\ Finish(eng, diag, RestoreResult(raise), RestoreCmd(raise), hw)
              ELSE /\ errBudget' = left
                   /\ Finish(eng, diag, "failed", << >>, hw)
    /\ UNCHANGED <<motors, served, reqLimit, skipped, faultLimit, faults, max_attempts,
                   relayOnly, classVars>>

\* ---- the hardware: a motor develops a fault or drops out
FaultyMotors == (1 .. MaxFaultyJoint) \cup {GripperMotor}
FaultStates(m) ==
    IF m = GripperMotor
    THEN {[en |-> FALSE, fl |-> {}], [en |-> TRUE, fl |-> {"has_error"}],
          [en |-> TRUE, fl |-> {"motor_overheating"}]}
    ELSE {[en |-> FALSE, fl |-> {}], [en |-> TRUE, fl |-> {"has_error"}],
          [en |-> TRUE, fl |-> {"collision"}], [en |-> TRUE, fl |-> {"motor_overheating"}]}

MotorFault ==
    /\ faults < faultLimit
    /\ \E s \in Sides, m \in FaultyMotors :
       \E st \in FaultStates(m) \ {motors[s][m]} :
          motors' = [motors EXCEPT ![s][m] = st]
    /\ faults' = faults + 1
    /\ UNCHANGED <<lpc, eng, log, diag, outcome, lock, served, reqLimit, skipped, faultLimit,
                   max_attempts, errBudget, relayOnly, classVars>>

EngineNext ==
    \/ ReceiveEnable
    \/ Diagnose
    \/ PartialClear
    \/ PartialAttempt
    \/ PartialGripper
    \/ PartialFinal
    \/ FullClear
    \/ FullEnable
    \/ FullForce
    \/ FullGripper
    \/ FullVerify
    \/ MotorFault

\* The steps of enable_motors on a request it has received: the listener's
\* thread runs them one after the other, each driver call returning or raising.
EngineStep ==
    \/ Diagnose \/ PartialClear \/ PartialAttempt \/ PartialGripper \/ PartialFinal
    \/ FullClear \/ FullEnable \/ FullForce \/ FullGripper \/ FullVerify

\* run(): every message read from the enable socket, readable or not.
ListenerNext == EngineNext \/ EnableSkipped

\* ------------------------------------------------------- specifications
\* The relay and, beside the robots/piper family, the enable listener.
Init ==
    /\ RelayInit /\ peer = TRUE /\ ClassifyIdle /\ EngineInit
    /\ msgLimit = 1 /\ errBudget = 0
    /\ reqLimit = (IF system = "piper" THEN 1 ELSE 0)
    /\ faultLimit = reqLimit /\ faults = 0
    /\ max_attempts = 1
Next == RelayNext \/ ListenerNext
Spec == Init /\ [][Next]_vars

\* The relay alone.
InitRelay ==
    /\ RelayInit /\ peer \in BOOLEAN /\ ClassifyIdle /\ EngineInit
    /\ msgLimit = MaxMsgs /\ errBudget = MaxDriverErrors
    /\ reqLimit = 0 /\ faultLimit = 0 /\ faults = 0
    /\ max_attempts = MaxAttempts
SpecRelay == InitRelay /\ [][RelayNext]_vars

\* The relay from robot.connect() on: socket set-up, the loop, the exit.
InitLifecycle ==
    /\ system \in Systems /\ peer = TRUE
    /\ connected = TRUE /\ socks = {}
    /\ chan = << >> /\ sent = 0 /\ rpc = "setup" /\ first_cmd = FALSE
    /\ lastValid = [s \in Sides |-> << >>]
    /\ limits = [s \in Sides |-> TRUE]
    /\ hwPos \in [Sides -> ReportedPos]
    /\ arrived = << >> /\ superseded = {} /\ lastRead = [id |-> 0, last |-> 0, kind |-> "none"]
    /\ applied = {} /\ cmdPub = {}
    /\ lastWrite = [s \in Sides |-> NoWrite]
    /\ cyc = NewCycle /\ obsSkipped = FALSE /\ exitCause = "none"
    /\ ClassifyIdle /\ EngineInit
    /\ msgLimit = 1 /\ errBudget = MaxDriverErrors
    /\ reqLimit = 0 /\ faultLimit = 0 /\ faults = 0
    /\ max_attempts = MaxAttempts
LifecycleNext == CreateSocket \/ RelayNext
SpecLifecycle == InitLifecycle /\ [][LifecycleNext]_vars

\* A follower alone, its send_action called directly.
InitFollower ==
    /\ system \in Followers
    /\ rpc = "off" /\ peer = FALSE
    /\ connected = TRUE /\ socks = {}
    /\ chan = << >> /\ sent = 0 /\ first_cmd = FALSE
    /\ lastValid = [s \in Sides |-> << >>]
    /\ limits = [s \in Sides |-> system # "piper_min"]
    /\ hwPos \in [Sides -> ReportedPos]
    /\ arrived = << >> /\ superseded = {} /\ lastRead = [id |-> 0, last |-> 0, kind |-> "none"]
    /\ applied = {} /\ cmdPub = {}
    /\ lastWrite = [s \in Sides |-> NoWrite]
    /\ cyc = NewCycle /\ obsSkipped = FALSE /\ exitCause = "none"
    /\ ClassifyIdle /\ EngineInit
    /\ msgLimit = MaxMsgs /\ errBudget = MaxDriverErrors
    /\ reqLimit = 0 /\ faultLimit = 0 /\ faults = 0
    /\ max_attempts = MaxAttempts
SpecFollower == InitFollower /\ [][FollowerNext]_vars

\* robot.connect() alone; the process keeps running whatever step is next.
InitConnect ==
    /\ RelayInit /\ system = "piper" /\ peer = FALSE /\ EngineInit
    /\ ClassifyRest /\ ScaleIdle /\ RouteIdle /\ TimingIdle /\ DispatchIdle /\ YamIdle
    /\ cn \in {ConnectStart(f) : f \in {"piper", "piper_min"}}
    /\ msgLimit = 0 /\ errBudget = 0
    /\ reqLimit = 0 /\ faultLimit = 0 /\ faults = 0
    /\ max_attempts = MaxAttempts
NextConnect == ConnectPort \/ EnableCall \/ EnableWait \/ ConnectSetup
SpecConnect == InitConnect /\ [][NextConnect]_vars /\ WF_vars(NextConnect)

\* The dispatch of enable commands alone, for either listener.
InitDispatch ==
    /\ RelayInit /\ system = "piper" /\ peer = FALSE /\ EngineInit
    /\ ClassifyRest /\ ScaleIdle /\ RouteIdle /\ TimingIdle /\ ConnectIdle /\ YamIdle
    /\ rq \in {DispatchStart(l) : l \in Listeners}
    /\ msgLimit = 0 /\ errBudget = 0
    /\ reqLimit = 0 /\ faultLimit = 0 /\ faults = 0
    /\ max_attempts = MaxAttempts
NextDispatch == ProcessEnableCommand \/ ProcessCommand
SpecDispatch == InitDispatch /\ [][NextDispatch]_vars

\* One call of YAMMotorEnableListener.enable_motors alone.
InitYamEnable ==
    /\ RelayInit /\ system = "yam_zmq" /\ peer = FALSE /\ EngineInit
    /\ ClassifyRest /\ ScaleIdle /\ RouteIdle /\ TimingIdle /\ ConnectIdle /\ DispatchIdle
    /\ ym \in YamCalls
    /\ msgLimit = 0 /\ errBudget = 0
    /\ reqLimit = 0 /\ faultLimit = 0 /\ faults = 0
    /\ max_attempts = MaxAttempts
NextYamEnable == EnableMotorsYam
SpecYamEnable == InitYamEnable /\ [][NextYamEnable]_vars

\* The relay loop's timing alone.
InitTiming ==
    /\ RelayInit /\ system = "piper" /\ peer = FALSE /\ ClassifyIdle /\ EngineInit
    /\ msgLimit = 0 /\ errBudget = 0
    /\ reqLimit = 0 /\ faultLimit = 0 /\ faults = 0
    /\ max_attempts = MaxAttempts
NextTiming == TimedRecv \/ TimedPublish \/ TimedSleep
SpecTiming == InitTiming /\ [][NextTiming]_vars

\* The bimanual Piper follower alone, called with keys of both spellings.
InitRouting ==
    /\ system = "piper"
    /\ rpc = "off" /\ peer = FALSE
    /\ connected = TRUE /\ socks = {}
    /\ chan = << >> /\ sent = 0 /\ first_cmd = FALSE
    /\ lastValid \in [Sides -> {<< >>, EarlierCommand}]
    /\ limits = [s \in Sides |-> TRUE]
    /\ hwPos \in [Sides -> ReportedPos]
    /\ arrived = << >> /\ superseded = {} /\ lastRead = [id |-> 0, last |-> 0, kind |-> "none"]
    /\ applied = {} /\ cmdPub = {}
    /\ lastWrite = [s \in Sides |-> NoWrite]
    /\ cyc = NewCycle /\ obsSkipped = FALSE /\ exitCause = "none"
    /\ ClassifyIdle /\ EngineInit
    /\ msgLimit = 1 /\ errBudget = MaxDriverErrors
    /\ reqLimit = 0 /\ faultLimit = 0 /\ faults = 0
    /\ max_attempts = MaxAttempts
SpecRouting == InitRouting /\ [][SendRouted]_vars

\* The recovery engine alone, driven by well-formed enable requests.
InitEngine ==
    /\ RelayInit /\ system = "piper" /\ peer = FALSE /\ ClassifyIdle /\ EngineInit
    /\ msgLimit = 0 /\ errBudget = MaxDriverErrors
    /\ reqLimit = MaxReqs /\ faultLimit = MaxFaults /\ faults = 0
    /\ max_attempts \in 0 .. MaxAttempts
SpecEngine == InitEngine /\ [][EngineNext]_vars
\* One request followed from its receipt to its end, with one hardware fault
\* at any moment before, during or after it; the listener's thread never
\* stops inside a request.
InitEngineLive ==
    /\ RelayInit /\ system = "piper" /\ peer = FALSE /\ ClassifyIdle /\ EngineInit
    /\ msgLimit = 0 /\ errBudget = MaxDriverErrors
    /\ reqLimit = 1 /\ faultLimit = 1 /\ faults = 0
    /\ max_attempts \in 0 .. MaxAttempts
SpecEngineLive == InitEngineLive /\ [][EngineNext]_vars /\ WF_vars(EngineStep)

\* The classification of one motor status.
InitClassify ==
    /\ RelayInit /\ system = "piper" /\ peer = FALSE /\ ClassifyInit /\ ScaleIdle /\ RouteIdle /\ TimingIdle /\ ConnectIdle /\ DispatchIdle /\ YamIdle /\ EngineInit
    /\ msgLimit = 0 /\ errBudget = 0
    /\ reqLimit = 0 /\ faultLimit = 0 /\ faults = 0
    /\ max_attempts = MaxAttempts
NextClassify == ClassifyStep /\ UNCHANGED <<relayVars, engVars>>
SpecClassify == InitClassify /\ [][NextClassify]_vars

\* set_joint_positions alone, on every joint and every command value.
InitScale ==
    /\ RelayInit /\ system = "piper" /\ peer = FALSE /\ ClassifyRest /\ ScaleInit /\ RouteIdle /\ TimingIdle /\ ConnectIdle /\ DispatchIdle /\ YamIdle /\ EngineInit
    /\ msgLimit = 0 /\ errBudget = 0
    /\ reqLimit = 0 /\ faultLimit = 0 /\ faults = 0
    /\ max_attempts = MaxAttempts
NextScale == SetJointPositions /\ UNCHANGED <<relayVars, engVars>>
SpecScale == InitScale /\ [][NextScale]_vars

\* --------------------------------------------------------- properties
PartialCmd(c) == c[1] \in {"EnableArm", "DisableArm"} /\ c[2] # 255
AllRead == {"joints", "gripper"}

\* C1: when a command omits a joint, the value written to the driver for
\* that joint is the arm's last commanded value from before the command,
\* never zero or another default.
C1_FallbackToLastKnown ==
    \A s \in Sides :
        (lastWrite[s].id # 0 /\ lastWrite[s].prev # << >>) =>
            \A j \in lastWrite[s].omitted : lastWrite[s].pos[j] = lastWrite[s].prev[j]

\* C2: of the messages that arrive between two command reads, the read takes
\* the one that arrived last, and a message that was followed by a later
\* arrival before being read is never handed to send_action and never
\* written to a driver.
C2_Conflation ==
    /\ lastRead.id = lastRead.last
    /\ applied \cap superseded = {}
    /\ \A s \in Sides : lastWrite[s].id \notin superseded
    /\ (cyc.kind = "cmd" => lastRead.id \in applied)
C2_Witness ==
    /\ superseded = {1}
    /\ applied = {2}
    /\ \E s \in Sides : lastWrite[s].id = 2

\* C3: the relay writes no joint command to an arm while a recovery sequence
\* is in progress on that arm.
C3_NoWriteDuringRecovery == \A s \in Sides : ~lastWrite[s].recovering

\* C4: a joint command is written to an arm's driver only while all of that
\* arm's motors are Healthy.
C4_WriteOnlyWhenHealthy ==
    \A s \in Sides : lastWrite[s].id # 0 => lastWrite[s].healthy

FlagsSet(in) == {k \in in.fl : k \notin OptionalFlags \/ k \in in.exposed}

\* C5: a joint motor's status is classified NeedsEnable when it is not
\* enabled, Zombie when it is enabled and some fault flag it exposes is set,
\* Healthy otherwise; show_status flags exactly the Zombie ones; a flag the
\* driver does not expose counts as not set.
C5_Classification ==
    clOut.class # "none" =>
        /\ clOut.class = (IF ~clIn.en THEN "NeedsEnable"
                          ELSE IF FlagsSet(clIn) # {} THEN "Zombie" ELSE "Healthy")
        /\ clOut.zombie = (clOut.class = "Zombie")
C5_Witness ==
    /\ clOut.class = "Zombie"
    /\ clIn.en /\ clIn.fl = {"collision"}

\* C6: a partial request that finds collision or motor_overheating on any
\* motor of the arm, the gripper included, ends in full mode and issues no
\* per-motor enable or disable command.
C6_Escalation ==
    (/\ outcome.result # "none"
     /\ outcome.partial
     /\ outcome.read = AllRead
     /\ \E m \in Motors : outcome.diag[m].fl \cap {"collision", "motor_overheating"} # {})
    => (/\ outcome.mode = "full"
        /\ \A i \in DOMAIN outcome.log : ~PartialCmd(outcome.log[i]))

\* C7 (as stated): a request, partial or full, that finds every motor of the
\* arm Healthy ends Done with no driver write command.
C7_HealthyNoop ==
    (/\ outcome.result # "none"
     /\ (outcome.partial => outcome.read = AllRead)
     /\ ArmHealthy(outcome.diag))
    => (outcome.result = "done" /\ outcome.log = << >>)

\* C7 (amended): a partial request whose diagnosis read every status and
\* found every motor of the arm Healthy ends Done with no driver write
\* command.
C7_HealthyPartialNoop ==
    (/\ outcome.result # "none"
     /\ outcome.partial
     /\ outcome.read = AllRead
     /\ ArmHealthy(outcome.diag))
    => (outcome.result = "done" /\ outcome.log = << >>)
C7_Witness ==
    /\ outcome.result = "done"
    /\ outcome.partial
    /\ outcome.read = AllRead
    /\ ArmHealthy(outcome.diag)
    /\ outcome.log = << >>

\* C8: when a request ends Done, every motor it targeted is enabled with no
\* fault flag at the end of the request, and after a full reset all six
\* joint motors and the gripper are enabled.
C8_DoneMeansHealthy ==
    outcome.result = "done" =>
        /\ \A m \in outcome.todo : Healthy(outcome.hwEnd[m])
        /\ (outcome.mode = "full" => \A m \in Motors : outcome.hwEnd[m].en)

\* C9: every cycle of the relay loop reads the robot state and attempts both
\* observation sends, whatever the command read found.
C9_EveryCycleObserves == ~obsSkipped

\* C10: a driver exception during a joint-command write or a status read
\* does not end the relay loop.
C10_DriverErrorsCaught == exitCause # "exception"

\* C11: a message that cannot be deserialized is never handed to
\* send_action (so no driver write and no cache update), is not broadcast
\* on the command broadcast socket, and does not end the loop that read it.
C11_UnreadableSkipped ==
    /\ lastRead.kind \in {"badjson", "badutf8"} =>
          /\ lastRead.id \notin applied
          /\ lastRead.id \notin cmdPub
          /\ \A s \in Sides : lastWrite[s].id # lastRead.id
    /\ exitCause # "decode"
    /\ (skipped > 0 /\ lpc = "idle" => log = << >>)

\* C12: with no peer connected, no step of the relay loop waits: the
\* command read finds nothing and goes on, both observation sends come
\* back at once with zmq.Again, and the cycle runs through to its sleep.
LoopStep == RecvNone \/ RecvMalformed \/ RecvUndecodable \/ RecvCommand \/ Publish \/ Sleep
C12_NeverStalls ==
    ~peer =>
        /\ chan = << >>
        /\ (rpc \in {"recv", "obs", "sleep"} => ENABLED (LoopStep /\ rpc' # "finally"))
        /\ (rpc = "sleep" => cyc.obsRead /\ cyc.push = "again" /\ cyc.pub = "again")
C12_Witness ==
    /\ ~peer
    /\ rpc = "sleep"
    /\ cyc.kind = "none" /\ cyc.obsRead
    /\ cyc.push = "again" /\ cyc.pub = "again"

\* C13: while an enable request is being processed the relay loop is never
\* held up: at every position of its cycle the step that carries the cycle
\* on is enabled.
C13_RelayNotBlocked ==
    lpc # "idle" =>
        /\ (rpc = "recv" /\ chan = << >> => ENABLED RecvNone)
        /\ (rpc = "recv" /\ chan # << >> /\ Head(chan).utf8 /\ ~Head(chan).bad
               => ENABLED (RecvCommand /\ rpc' = "obs"))
        /\ (rpc = "obs" => ENABLED (Publish /\ rpc' = "sleep"))
        /\ (rpc = "sleep" => ENABLED Sleep)
C13_Witness ==
    /\ lpc = "full_enable"
    /\ eng.attempts > 0
    /\ rpc = "sleep"
    /\ cyc.kind = "cmd" /\ cyc.obsRead

\* C14: whenever main() has been left after the robot connected, the robot
\* has been disconnected and every socket that was created has been closed.
C14_ReleasedOnExit == rpc = "exited" => (~connected /\ socks = {})

\* Positions inside _full_enable_motors.
FullPcs == {"full_clear", "full_enable", "full_force", "full_gripper", "full_verify"}
\* The commands issued so far for the request being handled, and by a step.
IssuedBy(l, lNext, o) == IF lNext = << >> THEN SubSeq(o.log, Len(l) + 1, Len(o.log))
                         ELSE SubSeq(lNext, Len(l) + 1, Len(lNext))
EnableCmd(c) == c[1] \in {"EnableArm", "EnablePiper"} \/ c = <<"GripperCtrl", "enable">>

\* C15: within one request the mode only ever changes from partial to full;
\* once the request is in full-reset mode it stays inside _full_enable_motors
\* and no step issues a per-motor EnableArm/DisableArm any more.
C15_EscalationOneWay ==
    [][ /\ (eng'.mode = "full" => lpc' \in FullPcs)
        /\ (eng.mode = "full" =>
               /\ eng'.mode \in {"full", "idle"}
               /\ lpc' \in FullPcs \cup {"idle"}
               /\ \A c \in Range(IssuedBy(log, log', outcome')) : ~PartialCmd(c)) ]_vars
C15_Witness ==
    /\ eng.partial /\ eng.mode = "full" /\ lpc = "full_verify"
    /\ \E i \in DOMAIN log : PartialCmd(log[i])

\* A partial request that went through at least one per-motor enable attempt
\* and was then handed to the full reset: the attempts of a motor ran out.
EscalatedAfterAttempts(o) ==
    /\ o.partial /\ o.mode = "full"
    /\ \E i \in DOMAIN o.log : o.log[i][1] = "EnableArm" /\ o.log[i][2] # 255
VerifyPasses(hw) ==
    /\ \A m \in JointMotors : hw[m].en
    /\ GripperStatus(hw[GripperMotor]).d["enabled"]
ZombieRaw(x) == x.en /\ x.fl # {}

C17_RestoreBeforeDone ==
    (outcome.result = "done" /\ \E i \in DOMAIN outcome.log : EnableCmd(outcome.log[i]))
    => /\ outcome.log[Len(outcome.log)][1] = "MotionCtrl_2"
       /\ \A i \in 1 .. Len(outcome.log) - 1 : outcome.log[i][1] # "MotionCtrl_2"
C17_Witness ==
    /\ outcome.result = "done" /\ EscalatedAfterAttempts(outcome)
    /\ outcome.log[Len(outcome.log)] = <<"MotionCtrl_2", "sent">>

\* C18: when the MotionCtrl_2 call raises after a successful final check the
\* request still ends Done.
C18_RestoreErrorKeepsDone ==
    (/\ outcome.result # "none"
     /\ outcome.log # << >>
     /\ outcome.log[Len(outcome.log)] = <<"MotionCtrl_2", "raised">>)
    => outcome.result = "done"
C18_Witness ==
    /\ outcome.result = "done"
    /\ outcome.log # << >>
    /\ outcome.log[Len(outcome.log)] = <<"MotionCtrl_2", "raised">>

\* C19: after a request ended Failed the listener sends no recovery command
\* and changes nothing of the engine until it receives another message.
C19_NoAutomaticRetry ==
    /\ [](outcome.result = "failed" =>
             /\ lpc = "idle" /\ log = << >> /\ eng = NoEng
             /\ \A s \in Sides : ~lock[s])
    /\ [][ (outcome.result = "failed" /\ served' = served)
           => (lpc' = "idle" /\ log' = << >> /\ outcome' = outcome) ]_vars
C19_Witness == outcome.result = "failed" /\ lpc = "idle" /\ faults > 0 /\ served = reqLimit

\* C20: whatever normalized value is commanded, the physical value computed
\* for a joint lies within that joint's [min, max] limits.
C20_WithinLimits ==
    scOut.written =>
        /\ min_pos(scIn.family, scIn.read)[scIn.joint] <= scOut.phys
        /\ scOut.phys <= max_pos(scIn.family, scIn.read)[scIn.joint]

\* C21: when the driver reports zero for the limits of all six joints, the
\* default table is installed, and a normalized joint command of 0 is written
\* as the midpoint of the joint's default range, times the wire scale.
C21_ZeroLimitsUseDefaults ==
    (scOut.written /\ scIn.read = "zero" /\ scIn.pos = 0 /\ scIn.joint \in JointMotors) =>
        LET mid == (DefaultMin[scIn.joint] + DefaultMax[scIn.joint]) \div 2
        IN  /\ ~AllZero(min_pos(scIn.family, scIn.read), max_pos(scIn.family, scIn.read))
            /\ scOut.phys = mid
            /\ scOut.wire = WireValue(scIn.joint, mid)

\* The joint a key name addresses.
NamesJoint(n, j) == AltKey[j] = n \/ (NamedKey[j] = n /\ n # "")

\* C22: a key "<side>.<joint_name>.pos" or "<side>_joint_<n>.pos" is routed to
\* that joint of that side's arm: the call writes that arm once, with the
\* joint at the key's value and the joints without a key at their last value.
C22_KeyRouting ==
    \A s \in Sides : \A k \in DOMAIN rtIn :
        (/\ k[1] \in {DotPrefix(s), Prefix("piper", s)}
         /\ errBudget = MaxDriverErrors)
        => /\ lastWrite[s].id = sent
           /\ \A j \in 1 .. NumJoints :
                 /\ (NamesJoint(k[2], j) => lastWrite[s].pos[j] = rtIn[k])
                 /\ ((lastWrite[s].prev # << >> /\ j \in lastWrite[s].omitted)
                        => lastWrite[s].pos[j] = lastWrite[s].prev[j])

\* C23: the start of each relay cycle is followed by the start of the next
\* no earlier than one cycle budget later, whatever kind of cycle it was; a
\* cycle whose work took longer than the budget is followed at once.
C23_CyclePeriod ==
    (tm.pc = "start" /\ tm.cycles > 0) =>
        /\ tm.gap >= CycleBudget
        /\ (tm.work > CycleBudget => tm.gap = tm.work)

\* The declared domain of a normalized command: [-100, 100] for a joint,
\* [0, 100] for the gripper.
InDomain(j, pos) == IF j = GripperMotor THEN 0 <= pos /\ pos <= 100
                    ELSE -100 <= pos /\ pos <= 100

\* C24: converting a normalized value of the declared domain to wire units
\* and converting what the driver then reports back gives the value again,
\* up to one unit of truncation: the observation of a joint at its commanded
\* position is in the command's normalized units.
C24_RoundTrip ==
    (scOut.written /\ InDomain(scIn.joint, scIn.pos)
        /\ max_pos(scIn.family, scIn.read)[scIn.joint] > min_pos(scIn.family, scIn.read)[scIn.joint])
    => (scOut.obs - scIn.pos <= 1 /\ scIn.pos - scOut.obs <= 1)

\* The fault flags the gripper's foc_status is read for.
GripperFlags == {"has_error", "driver_overheating", "motor_overheating",
                 "overcurrent", "voltage_low"}

\* C25: over the fault flags a gripper has (no collision, no stall) a gripper
\* status is classified as a joint motor's status with the same flags is; in
\* particular an enabled gripper with driver_overheating or motor_overheating
\* set is classified as faulted.
C25_GripperSameRule ==
    (clOut.class # "none" /\ clIn.fl \subseteq GripperFlags) =>
        /\ clOut.gripper = clOut.class
        /\ (clIn.en /\ clIn.fl \cap {"driver_overheating", "motor_overheating"} # {}
               => clOut.gripper = "Zombie")

\* C26: a connect attempt always terminates, Connected or with a failure
\* surfaced to the caller, whatever the driver answers.
C26_ConnectTerminates == <>(cn.result \in {"connected", "failed"})

\* The arms a selector names.
Selected(arm) == IF arm = "both" THEN Sides ELSE {arm}

\* C27: an enable request is consumed once and runs exactly one recovery
\* sequence on each arm its selector names (left, right, or both of them)
\* and none on an arm it does not name.
C27_SelectorRuns ==
    (rq.n > 0 /\ rq.cmd.type = "enable") =>
        \A s \in Sides : rq.run[s].ran = IF s \in Selected(rq.cmd.arm) THEN 1 ELSE 0

\* The number of times command c is in the sequence l.
Times(l, c) == Cardinality({i \in DOMAIN l : l[i] = c})

\* C28: in the partial recovery no motor is sent more than max_attempts
\* enable commands within one request, and a motor's retry loop ends at the
\* first attempt after which the motor reads back enabled with no fault flag,
\* not before it while attempts remain.
C28_PartialAttemptsBounded ==
    /\ [](\A m \in JointMotors :
            /\ Times(log, <<"EnableArm", m>>) <= max_attempts
            /\ Times(outcome.log, <<"EnableArm", m>>) <= max_attempts)
    /\ [][ (lpc = "p_enable" /\ Len(log') = Len(log) + 1 /\ errBudget' = errBudget)
           => LET m == eng.todo[eng.idx]
                  read == motors'[eng.arm][m]
              IN  /\ log'[Len(log')] = <<"EnableArm", m>>
                  /\ (Healthy(read) =>
                         /\ eng'.idx = eng.idx + 1 /\ eng'.attempts = 0
                         /\ eng'.success = eng.success + 1)
                  /\ (~Healthy(read) /\ eng.attempts + 1 < max_attempts =>
                         /\ lpc' = "p_enable" /\ eng'.idx = eng.idx
                         /\ eng'.attempts = eng.attempts + 1) ]_vars
C28_Witness ==
    /\ outcome.result = "done" /\ outcome.mode = "partial"
    /\ max_attempts = MaxAttempts
    /\ \E m \in JointMotors : Times(outcome.log, <<"EnableArm", m>>) = MaxAttempts

\* The arm-wide enable calls in a command log, and the force-enable command.
ArmWideEnables(l) == {i \in DOMAIN l : l[i][1] = "EnablePiper"}
ForceEnabled(l) == \E i \in DOMAIN l : l[i][1] = "EnableArm" /\ l[i][2] = 255

\* C29: in the full reset the arm-wide enable command is issued at most
\* max_attempts times within one request, for every max_attempts >= 0 and
\* whatever the driver answers.
C29_ArmWideEnableBounded ==
    /\ Cardinality(ArmWideEnables(log)) <= max_attempts
    /\ Cardinality(ArmWideEnables(outcome.log)) <= max_attempts

\* C30: in the full reset the force-enable command is issued if and only if
\* every arm-wide enable attempt of the request returned failure; when some
\* attempt returned success, the last one included, it is not issued.
C30_ForceIffAllFailed ==
    \A l \in {log, outcome.log} :
        (ArmWideEnables(l) # {} /\ \E i \in DOMAIN l : l[i][1] = "GripperCtrl" /\ l[i][2] = "setzero")
        => (ForceEnabled(l) <=> \A i \in ArmWideEnables(l) : l[i][2] = FALSE)

\* Where the full reset's commands start in a command log: the emergency
\* stop release that is directly followed by the clearing of all joints'
\* error registers (the partial path clears single joints in between).
FullStart(l) ==
    {i \in 1 .. Len(l) - 1 :
        l[i][1] = "EmergencyStop" /\ l[i + 1][1] = "JointConfig" /\ l[i + 1][2] = 7}
\* The place of a command in the full reset after its two clearing commands.
Phase(c) ==
    CASE c[1] = "EnablePiper" -> 1
      [] c[1] = "EnableArm" /\ c[2] = 255 -> 2
      [] c[1] = "GripperCtrl" /\ c[2] = "enable" -> 3
      [] c[1] = "GripperCtrl" /\ c[2] = "move0" -> 4
      [] c[1] = "GripperCtrl" /\ c[2] = "setzero" -> 5
      [] c[1] = "MotionCtrl_2" -> 6
      [] OTHER -> 0
FullOrdered(l) ==
    /\ Cardinality(FullStart(l)) <= 1
    /\ \A s \in FullStart(l) :
          LET p == SubSeq(l, s + 2, Len(l))
          IN  /\ \A i \in DOMAIN p : Phase(p[i]) >= 1
              /\ (p # << >> => Phase(p[1]) = 1)
              /\ \A i \in DOMAIN p : \A j \in DOMAIN p :
                    i < j => /\ Phase(p[i]) <= Phase(p[j])
                             /\ (Phase(p[i]) = Phase(p[j]) => Phase(p[i]) = 1)
              /\ \A i \in DOMAIN p :
                    Phase(p[i]) \in {4, 5} => (i > 1 /\ Phase(p[i - 1]) = Phase(p[i]) - 1)

\* C31: in every full reset the commands are: clear emergency stop, clear
\* all joint error registers, the arm-wide enable attempts, then, only after
\* the enable phase has ended, the gripper reset (enable+clear, move to zero,
\* set zero, in that order); the verification status read comes after all.
C31_FullResetOrder ==
    /\ FullOrdered(log) /\ FullOrdered(outcome.log)
    /\ (lpc \in {"full_enable", "full_force", "full_gripper", "full_verify"}
           => FullStart(log) # {})
    /\ (lpc = "full_gripper" => Phase(log[Len(log)]) \in {1, 2})
    /\ (lpc = "full_verify" => Phase(log[Len(log)]) = 5)
C31_Witness ==
    /\ outcome.result = "done" /\ outcome.partial
    /\ \E s \in FullStart(outcome.log) : s > 1
    /\ ForceEnabled(outcome.log)

\* C32: in a cycle whose observation-channel send fails the observation is
\* still sent on the broadcast channel, a failed broadcast send leaves the
\* observation-channel send as it was, and neither failure ends the cycle
\* early: the cycle goes on to its sleep.
C32_SendsIndependent ==
    cyc.obsRead =>
        /\ cyc.push \in SendOutcomes /\ cyc.pub \in SendOutcomes
        /\ (rpc = "sleep" \/ exitCause = "interrupt")
        /\ exitCause # "exception"
C32_Witness ==
    /\ rpc = "sleep" /\ cyc.obsRead
    /\ cyc.push = "again" /\ cyc.pub = "sent"

\* C33: an arm's last-valid-command cache changes only in a step that wrote
\* a command to that arm's driver without error; a command whose driver
\* write raises leaves the cache as it was.
C33_CacheOnlyOnWrite ==
    [][ \A s \in Sides :
          lastValid'[s] # lastValid[s] => lastWrite'[s].id = sent' ]_vars

\* The motor a per-motor enable or disable command is sent to.
Targets(c) ==
    IF PartialCmd(c) THEN {c[2]}
    ELSE IF c[1] = "GripperCtrl" /\ c[2] = "enable" THEN {GripperMotor} ELSE {}
\* The class the diagnosis gave motor m of hardware hw.
ClassAtDiagnosis(hw, m) ==
    IF m = GripperMotor THEN Classify(GripperStatus(hw[m]).d)
    ELSE Classify(DetailedStatus(m, hw[m], SdkExposed).d)
OnlyUnhealthyTargeted(l, hw) ==
    \A i \in DOMAIN l : \A m \in Targets(l[i]) :
        ClassAtDiagnosis(hw, m) \in {"NeedsEnable", "Zombie"}

CommandBound(n, max) == (2 + 3 * n + n * max) + (2 + (max + 1) + 1 + 3 + 1)

\* C35: every enable request the listener received reaches Done or Failed
\* after a bounded number of driver commands, whatever max_attempts is and
\* whatever the driver answers or raises; the arm's lock is then free and
\* the listener can receive the next request.
C35_RequestTerminates ==
    /\ (lpc # "idle") ~> (/\ lpc = "idle"
                          /\ outcome.result \in {"done", "failed"}
                          /\ \A s \in Sides : ~lock[s])
    /\ [](Len(log) <= CommandBound(Len(eng.todo), max_attempts))
    /\ [](lpc = "idle" => /\ \A s \in Sides : ~lock[s]
                          /\ (served < reqLimit => ENABLED ReceiveEnable))
C35_Witness ==
    /\ lpc = "idle" /\ outcome.result = "failed"
    /\ outcome.partial /\ outcome.mode = "full"
    /\ max_attempts = MaxAttempts
    /\ ForceEnabled(outcome.log)
    /\ \A s \in Sides : ~lock[s]

\* C36: a driver call that raises during one enable attempt counts as a
\* failed attempt: while attempts remain for the motor the request goes on
\* and does not end Failed on that single error.
C36_ErrorIsFailedAttempt ==
    [][ (/\ lpc = "p_enable"
         /\ errBudget' < errBudget
         /\ eng.attempts + 1 < max_attempts)
        => (lpc' = "p_enable" /\ outcome'.result # "failed") ]_vars

\* C37: a partial request ends Done without a driver command only when the
\* diagnosis read the status of the six joints and of the gripper and
\* classified all seven Healthy; when the joints' or the gripper's status
\* could not be read the request does not end Done for want of work.
C37_DoneNeedsFullRead ==
    (outcome.result = "done" /\ outcome.partial /\ outcome.log = << >>)
    => /\ outcome.read = AllRead
       /\ \A m \in Motors : ClassAtDiagnosis(outcome.diag, m) = "Healthy"

\* What reaches the driver for joint j of a Piper arm when set_joint_positions
\* is handed pos for it, with the joint limits of the table.
DriverValue(j, pos) ==
    WireValue(j, ScaledPosition(min_pos("piper", "table"), max_pos("piper", "table"), j, pos))

\* C38: on the first command applied to an arm after connect, each joint the
\* command omits is written to the driver at the position the driver reports
\* for it: not at zero, and not at a value in another unit than the report.
C38_FirstCommandHoldsOmitted ==
    \A s \in Sides :
        (lastWrite[s].id # 0 /\ lastWrite[s].prev = << >>) =>
            \A j \in lastWrite[s].omitted :
                /\ lastWrite[s].pos[j] = hwPos[s][j]
                /\ (system = "piper" => DriverValue(j, lastWrite[s].pos[j]) = hwPos[s][j])

\* C39: a call of YAMMotorEnableListener.enable_motors in partial mode with no
\* motor ids that returns True without clearing any motor has read the
\* chain's status, and every motor in that status is reported enabled.
C39_NoWorkMeansAllEnabled ==
    (ym.pc = "returned" /\ ym.chain /\ ~ym.given /\ ym.mode = "partial"
        /\ ym.ret /\ ym.cleared = {}) =>
        (ym.read1 /\ \A m \in DOMAIN ym.hw : ym.hw[m])

\* The command's keys for one Piper arm, and whether one of them names a joint.
ArmPart(act, s) == SplitAction(act, Prefix("piper", s))
Recognised(act, s) == DOMAIN ArmPart(act, s) \cap (expected_keys \cup alt_keys) # {}

\* C40: when the relay hands a command to the bimanual Piper follower, an arm
\* for which the command carries no recognised joint key gets no driver write
\* and keeps its last-valid-command cache as it was.
C40_NoKeysNoWrite ==
    [][\A s \in Sides :
          (system = "piper" /\ applied' # applied /\ chan # << >>
              /\ ~Recognised(Head(chan).act, s)) =>
          (lastWrite'[s] = lastWrite[s] /\ lastValid'[s] = lastValid[s])]_vars
\* A command with right-arm keys only was written to the right arm, and the
\* left arm has had no write and has no cache.
C40_Witness ==
    /\ system = "piper" /\ applied # {}
    /\ lastWrite.right.id \in applied
    /\ lastWrite.left.id = 0 /\ lastValid.left = << >>

====
